---- MODULE Spec2Model ----
(***************************************************************************)
(* Skill Galaxy: graph builder (src/data/skilltree.ts, algorithms.ts), the *)
(* interaction manager (islands/galaxy/GalaxyInteraction.ts) and the event *)
(* handlers of the galaxy view (GalaxyView) and of the tech tree           *)
(* (islands/TechTree.ts), as state machines.                               *)
(*                                                                         *)
(* JavaScript values: null and undefined are the string Null; an optional  *)
(* array that is undefined is the empty sequence (every use in the source  *)
(* is guarded by `if (node.prerequisites)` and then only iterates it).     *)
(* A Set<string> is a TLA+ set; an array is a sequence.                    *)
(***************************************************************************)
EXTENDS Integers, Sequences, FiniteSets, TLC

VARIABLES
  courses,          \* CourseNode[] handed to the page
  projectNodes,     \* ProjectNode[] handed to the page
  leetcodeStatsRaw, \* data/leetcode-stats.json: its tagStats array, or Null
  skillsRegistry,   \* data/skills-registry.json: its skills array, or Null
  env,              \* the container's size and the value Math.random() gives
  phase,            \* "loaded": the page has its data; "built": the graph is built
  nodeMap,          \* new Map(galaxyNodes.map(n => [n.id, n]))
  edges,            \* buildEdges(...)
  algoEdges,        \* buildAlgorithmNodes().edges
  state,            \* GalaxyInteraction: the single InteractionState object
  lastCall,         \* the last call made on the manager: [op, arg, ret]
  held,             \* what a caller kept from an earlier call: [ref, seen]
  trav,             \* a chain traversal in progress: call stack, visited set, log
  lay,              \* the layout loops applied to a list of nodes: [nodes, pos]
  card,             \* cards/_shared.ts: an observed card, its animation loops
  fetcher,          \* scripts/fetch-leetcode.ts: a run of main(), step by step
  anim,             \* the energy particles of the galaxy view and their loops
  view,             \* GalaxyView: the DOM state its handlers read and write
  lastEvent,        \* the last handler of the galaxy view that ran
  tt                \* TechTree: pointer, panel, node and edge classes, last handler

inputVars == <<courses, projectNodes, leetcodeStatsRaw, skillsRegistry, env>>
builtVars == <<phase, nodeMap, edges, algoEdges>>
managerVars == <<state, lastCall, held, trav, lay, card, fetcher, anim>>
viewVars == <<view, lastEvent>>
vars == <<inputVars, builtVars, managerVars, viewVars, tt>>

\* ---------------------------------------------------------------- values

Null == "null"

Truthy(v) == v # Null /\ v # ""

\* JavaScript a || b
OrElse(a, b) == IF Truthy(a) THEN a ELSE b

Range(s) == {s[i] : i \in 1..Len(s)}

\* duplicate-free sequences over S of length at most n
InjSeqs(S, n) ==
  {s \in UNION {[1..k -> S] : k \in 0..n} :
     \A i, j \in 1..Len(s) : i # j => s[i] # s[j]}

Frac(n, d) == [num |-> n, den |-> d]

Least(S) == CHOOSE x \in S : \A y \in S : x <= y

Max(S) == CHOOSE m \in S : \A x \in S : x <= m

Min2(a, b) == IF a <= b THEN a ELSE b

RECURSIVE ConcatAll(_)
ConcatAll(ss) == IF ss = <<>> THEN <<>> ELSE Head(ss) \o ConcatAll(Tail(ss))

\* ------------------------------------------------- data/skilltree.ts

STAR_GATE_IDS ==
  {"thesis-phd", "pub-specvit-apj", "proj-blade", "pub-charm", "intern-bytedance"}

\* The seven clusters with their track ids. Of the darkStars lists, the first
\* entry of physics and of business is kept.
clusters ==
  << [id |-> "physics",     trackIds |-> <<"physics">>,            darkStars |-> <<"dark-condensed-matter">>],
     [id |-> "math",        trackIds |-> <<"math">>,               darkStars |-> <<>>],
     [id |-> "cs",          trackIds |-> <<"algorithms">>,         darkStars |-> <<>>],
     [id |-> "aiml",        trackIds |-> <<"ai", "ml">>,           darkStars |-> <<>>],
     [id |-> "engineering", trackIds |-> <<"systems">>,            darkStars |-> <<>>],
     [id |-> "data",        trackIds |-> <<>>,                     darkStars |-> <<>>],
     [id |-> "business",    trackIds |-> <<"business", "social">>, darkStars |-> <<"dark-strategy">>] >>

ClusterIds == {clusters[i].id : i \in 1..Len(clusters)}

\* trackToCluster.get(tid): the map is filled cluster by cluster, a later
\* set() of the same track id replacing an earlier one.
trackToCluster(tid) ==
  LET owners == {i \in 1..Len(clusters) : tid \in Range(clusters[i].trackIds)}
  IN IF owners = {} THEN Null ELSE clusters[Max(owners)].id

\* as courseClusterOverrides, the entry naming a cluster that is not defined
courseClusterOverrides_undefinedCluster(id) == IF id = "EN553636" THEN "datasci" ELSE Null

courseClusterOverrides(id) == IF id = "EN553636" THEN "data" ELSE Null

\* as gradeToMastery, with the default of a missing grade for every grade
\* outside the table
gradeToMastery_oneDefault(grade) ==
  IF ~Truthy(grade) THEN Frac(50, 100)
  ELSE CASE grade = "A+" -> Frac(100, 100)
         [] grade = "A"  -> Frac(85, 100)
         [] grade = "A-" -> Frac(70, 100)
         [] grade = "B+" -> Frac(55, 100)
         [] grade = "B"  -> Frac(45, 100)
         [] grade = "P"  -> Frac(50, 100)
         [] OTHER        -> Frac(50, 100)

gradeToMastery(grade) ==
  IF ~Truthy(grade) THEN Frac(50, 100)
  ELSE CASE grade = "A+" -> Frac(100, 100)
         [] grade = "A"  -> Frac(85, 100)
         [] grade = "A-" -> Frac(70, 100)
         [] grade = "B+" -> Frac(55, 100)
         [] grade = "B"  -> Frac(45, 100)
         [] grade = "P"  -> Frac(50, 100)
         [] OTHER        -> Frac(40, 100)

gradeToStarClass(grade, nodeType) ==
  IF nodeType = "dark" THEN "ghost"
  ELSE IF nodeType \in {"thesis", "publication"} THEN "hypergiant"
  ELSE IF ~Truthy(grade) THEN "main-sequence"
  ELSE CASE grade = "A+"           -> "hypergiant"
         [] grade \in {"A", "A-"}  -> "main-sequence"
         [] OTHER                  -> "brown-dwarf"

assignLayer(nodeType, id) ==
  IF nodeType = "core" THEN "core"
  ELSE IF nodeType = "dark" THEN "outer"
  ELSE IF id \in STAR_GATE_IDS THEN "stargate"
  ELSE IF nodeType = "skill" THEN "mid"
  ELSE IF nodeType = "course" THEN "inner"
  ELSE IF nodeType \in {"thesis", "publication", "internship"} THEN "outer"
  ELSE "mid"

GalaxyNode(id, nodeType, clusterId, mastery, starClass, layer, isStarGate, isDark, prerequisites, relatedCourses) ==
  [id |-> id, nodeType |-> nodeType, clusterId |-> clusterId, mastery |-> mastery,
   starClass |-> starClass, layer |-> layer, isStarGate |-> isStarGate,
   isDark |-> isDark, prerequisites |-> prerequisites,
   relatedCourses |-> relatedCourses]

coreGalaxyNode ==
  GalaxyNode("CORE", "core", "core", Frac(1, 1), "hypergiant", "core", FALSE, FALSE,
             <<>>, <<>>)

courseGalaxyNode(c) ==
  LET clusterId == OrElse(courseClusterOverrides(c.id),
                          OrElse(trackToCluster(c.track), "cs"))
      nt == OrElse(c.nodeType, "course")
  IN GalaxyNode(c.id, nt, clusterId, gradeToMastery(c.grade),
                gradeToStarClass(c.grade, nt), assignLayer(nt, c.id), FALSE, FALSE,
                c.prerequisites, <<>>)

projectMastery(nt) ==
  IF nt = "thesis" THEN Frac(95, 100)
  ELSE IF nt = "publication" THEN Frac(90, 100)
  ELSE IF nt = "internship" THEN Frac(85, 100)
  ELSE Frac(75, 100)

projectGalaxyNode(p) ==
  LET track == OrElse(p.track, "ml")
      clusterId == OrElse(trackToCluster(track), "aiml")
      nt == OrElse(p.nodeType, "project")
      isSG == p.id \in STAR_GATE_IDS
  IN GalaxyNode(p.id, nt, clusterId, projectMastery(nt),
                IF isSG THEN "hypergiant" ELSE gradeToStarClass(Null, nt),
                assignLayer(nt, p.id), isSG, FALSE, <<>>, p.relatedCourses)

darkGalaxyNodes(cluster) ==
  [i \in 1..Len(cluster.darkStars) |->
     GalaxyNode(cluster.darkStars[i], "dark", cluster.id, Frac(0, 1), "ghost", "outer",
                FALSE, TRUE, <<>>, <<>>)]

skillMaturityToStarClass(level) ==
  CASE level = "mature"  -> "hypergiant"
    [] level = "growing" -> "main-sequence"
    [] OTHER             -> "brown-dwarf"

buildSkillNodes(registry) ==
  IF registry = Null \/ registry = <<>> THEN <<>>
  ELSE [i \in 1..Len(registry) |->
          GalaxyNode("skill-" \o registry[i].id, "skill", "engineering",
                     Frac(registry[i].maturity_score, 100),
                     skillMaturityToStarClass(registry[i].maturity_level), "mid",
                     FALSE, FALSE, <<>>, <<>>)]

buildGalaxyNodes(cs, ps, cls, algorithmNodes, registry) ==
  <<coreGalaxyNode>>
  \o [i \in 1..Len(cs) |-> courseGalaxyNode(cs[i])]
  \o [i \in 1..Len(ps) |-> projectGalaxyNode(ps[i])]
  \o ConcatAll([i \in 1..Len(cls) |-> darkGalaxyNodes(cls[i])])
  \o algorithmNodes
  \o buildSkillNodes(registry)

Edge(s, t, ty) == [source |-> s, target |-> t, type |-> ty]

buildEdges(cs, ps, algorithmEdges) ==
  ConcatAll([i \in 1..Len(cs) |->
               [j \in 1..Len(cs[i].prerequisites) |->
                  Edge(cs[i].prerequisites[j], cs[i].id, "prerequisite")]])
  \o ConcatAll([i \in 1..Len(ps) |->
               [j \in 1..Len(ps[i].relatedCourses) |->
                  Edge(ps[i].relatedCourses[j], ps[i].id, "related")]])
  \o algorithmEdges

\* new Map(nodes.map(n => [n.id, n])): a later node of the same id wins
MapOfNodes(nodes) ==
  [id \in {nodes[i].id : i \in 1..Len(nodes)} |->
     nodes[Max({i \in 1..Len(nodes) : nodes[i].id = id})]]

\* ------------------------------------------------- data/algorithms.ts

\* Two of the twenty ALGO_TOPICS rows, as authored.
ALGO_TOPICS ==
  << [id |-> "algo-array-hash", tagSlugs |-> <<"array", "hash-table">>,
      estimatedTotal |-> 300, layer |-> "inner", prerequisites |-> <<>>],
     [id |-> "algo-string", tagSlugs |-> <<"string">>,
      estimatedTotal |-> 200, layer |-> "inner",
      prerequisites |-> <<"algo-array-hash">>] >>

\* as tagStatsGet, a slug with no entry counting as ten solved problems
tagStatsGet_missingAsTen(raw, slug) ==
  LET list == IF raw = Null THEN <<>> ELSE raw
      hits == {i \in 1..Len(list) : list[i].tagSlug = slug}
  IN IF hits = {} THEN 10 ELSE list[Max(hits)].problemsSolved

\* tagStatsMap.get(slug) || 0, the map built from (raw.tagStats || [])
tagStatsGet(raw, slug) ==
  LET list == IF raw = Null THEN <<>> ELSE raw
      hits == {i \in 1..Len(list) : list[i].tagSlug = slug}
  IN IF hits = {} THEN 0 ELSE list[Max(hits)].problemsSolved

RECURSIVE computeSolvedCount(_, _)
computeSolvedCount(raw, tagSlugs) ==
  IF tagSlugs = <<>> THEN 0
  ELSE tagStatsGet(raw, Head(tagSlugs)) + computeSolvedCount(raw, Tail(tagSlugs))

\* thresholds 0.05, 0.3, 0.7 on the fraction m
masteryToStarClass(m) ==
  IF m.num * 100 < 5 * m.den THEN "ghost"
  ELSE IF m.num * 10 < 3 * m.den THEN "brown-dwarf"
  ELSE IF m.num * 10 < 7 * m.den THEN "main-sequence"
  ELSE "hypergiant"

algorithmGalaxyNode(raw, topic) ==
  LET solvedCount == computeSolvedCount(raw, topic.tagSlugs)
      mastery == Frac(Min2(topic.estimatedTotal, solvedCount), topic.estimatedTotal)
      starClass == masteryToStarClass(mastery)
      isDark == starClass = "ghost"
  IN GalaxyNode(topic.id, IF isDark THEN "dark" ELSE "course", "cs", mastery,
                starClass, topic.layer, FALSE, isDark, topic.prerequisites, <<>>)

buildAlgorithmNodes(raw) ==
  [nodes |-> [i \in 1..Len(ALGO_TOPICS) |-> algorithmGalaxyNode(raw, ALGO_TOPICS[i])],
   edges |-> ConcatAll([i \in 1..Len(ALGO_TOPICS) |->
               [j \in 1..Len(ALGO_TOPICS[i].prerequisites) |->
                  Edge(ALGO_TOPICS[i].prerequisites[j], ALGO_TOPICS[i].id,
                       "prerequisite")]])]

\* ------------------------------------- islands/galaxy/GalaxyInteraction.ts

ProjectLikeTypes == {"project", "thesis", "publication", "internship", "repo"}

RECURSIVE collectPrereqChain(_, _), collectPrereqEach(_, _, _)
\* for (const x of list) collectPrereqChain(x, visited)
collectPrereqEach(list, i, visited) ==
  IF i > Len(list) THEN visited
  ELSE collectPrereqEach(list, i + 1, collectPrereqChain(list[i], visited))

\* The visited set after the call.
collectPrereqChain(nodeId, visited) ==
  IF nodeId \in visited THEN visited
  ELSE LET v1 == visited \cup {nodeId}
       IN IF nodeId \notin DOMAIN nodeMap THEN v1
          ELSE LET node == nodeMap[nodeId]
                   v2 == collectPrereqEach(node.prerequisites, 1, v1)
               IN collectPrereqEach(node.relatedCourses, 1, v2)

RECURSIVE collectDownstreamChain(_, _), downstreamCourses(_, _, _),
          downstreamProjects(_, _, _)
\* for (const c of courses) if (c.prerequisites?.includes(nodeId)) recurse(c.id)
downstreamCourses(nodeId, i, visited) ==
  IF i > Len(courses) THEN visited
  ELSE downstreamCourses(nodeId, i + 1,
         IF nodeId \in Range(courses[i].prerequisites)
         THEN collectDownstreamChain(courses[i].id, visited)
         ELSE visited)

\* for (const p of projectNodes) if (p.relatedCourses.includes(nodeId)) recurse(p.id)
downstreamProjects(nodeId, i, visited) ==
  IF i > Len(projectNodes) THEN visited
  ELSE downstreamProjects(nodeId, i + 1,
         IF nodeId \in Range(projectNodes[i].relatedCourses)
         THEN collectDownstreamChain(projectNodes[i].id, visited)
         ELSE visited)

collectDownstreamChain(nodeId, visited) ==
  IF nodeId \in visited THEN visited
  ELSE LET v1 == visited \cup {nodeId}
           v2 == downstreamCourses(nodeId, 1, v1)
       IN downstreamProjects(nodeId, 1, v2)

\* as collectUpstreamSkills, but following the related courses' prerequisites
\* all the way up instead of one hop
collectUpstreamSkills_allHops(nodeId) ==
  IF nodeId \notin DOMAIN nodeMap THEN {}
  ELSE LET node == nodeMap[nodeId]
           isProjectLike == node.nodeType \in ProjectLikeTypes
       IN IF ~isProjectLike /\ ~node.isStarGate THEN {}
          ELSE collectPrereqEach(node.relatedCourses, 1, {})
               \cup Range(node.prerequisites)

collectUpstreamSkills(nodeId) ==
  IF nodeId \notin DOMAIN nodeMap THEN {}
  ELSE LET node == nodeMap[nodeId]
           isProjectLike == node.nodeType \in ProjectLikeTypes
       IN IF ~isProjectLike /\ ~node.isStarGate THEN {}
          ELSE Range(node.relatedCourses)
               \cup UNION {IF cid \in DOMAIN nodeMap
                           THEN Range(nodeMap[cid].prerequisites) ELSE {}
                           : cid \in Range(node.relatedCourses)}
               \cup Range(node.prerequisites)

\* activeEdges: {source, target} of every edge with both ends in the chain,
\* in the order of edges
activeEdgesOf(chain) ==
  LET inChain(e) == e.source \in chain /\ e.target \in chain
      kept == SelectSeq(edges, inChain)
  IN [i \in 1..Len(kept) |-> [source |-> kept[i].source, target |-> kept[i].target]]

collectChain(nodeId) ==
  LET chain1 == collectPrereqChain(nodeId, {})
      chain == collectDownstreamChain(nodeId, chain1)
  IN [chain |-> chain, overclock |-> collectUpstreamSkills(nodeId),
      activeEdges |-> activeEdgesOf(chain)]

EmptyState ==
  [hoveredNodeId |-> Null, selectedNodeId |-> Null, highlightedChain |-> {},
   overclockTargets |-> {}, fogClusterId |-> Null]

\* node?.clusterId || null
fogClusterOf(nodeId) ==
  IF nodeId \in DOMAIN nodeMap THEN OrElse(nodeMap[nodeId].clusterId, Null) ELSE Null

\* the fields hover and select both assign after setting their own id field
withHighlight(st, nodeId) ==
  IF Truthy(nodeId)
  THEN LET result == collectChain(nodeId)
       IN [st EXCEPT !.highlightedChain = result.chain,
                     !.overclockTargets = result.overclock,
                     !.fogClusterId = fogClusterOf(nodeId)]
  ELSE [st EXCEPT !.highlightedChain = {}, !.overclockTargets = {},
                  !.fogClusterId = Null]

\* as hover, but leaving fogClusterId as it was
hover_staleFog(nodeId) ==
  [withHighlight([state EXCEPT !.hoveredNodeId = nodeId], nodeId)
     EXCEPT !.fogClusterId = state.fogClusterId]

\* the content of the state object after hover(nodeId)
hover(nodeId) == withHighlight([state EXCEPT !.hoveredNodeId = nodeId], nodeId)

\* as select, but select(null) only clears selectedNodeId
select_keepsHighlight(nodeId) ==
  IF Truthy(nodeId)
  THEN withHighlight([state EXCEPT !.selectedNodeId = nodeId], nodeId)
  ELSE [state EXCEPT !.selectedNodeId = nodeId]

\* the content of the state object after select(nodeId)
select(nodeId) == withHighlight([state EXCEPT !.selectedNodeId = nodeId], nodeId)

\* as reset, but leaving selectedNodeId as it was
reset_keepsSelection == [EmptyState EXCEPT !.selectedNodeId = state.selectedNodeId]

\* the content of the state object after reset()
reset == EmptyState

\* hover, select and reset end with `return state`: the caller receives the
\* manager's one state object, not a copy of it.
StateRef == "state"

returned(st) == StateRef

Deref(ref) == IF ref = StateRef THEN state ELSE Null

\* A caller may keep what a call returned, together with what it read there
\* when the call returned.
Keep(ref, seen) ==
  \/ held' = [ref |-> ref, seen |-> seen]
  \/ UNCHANGED held

\* ---------------------------------------------------------------- inputs

MaxList == 1

\* ids a prerequisite or related-course list may name: the courses and an id
\* of no node
NodeIdPool == {"c1", "c2", "zz"}

IdLists == InjSeqs(NodeIdPool, MaxList)

Course(id, track, grade, nodeType, prerequisites) ==
  [id |-> id, track |-> track, grade |-> grade, nodeType |-> nodeType,
   prerequisites |-> prerequisites]

Project(id, track, nodeType, relatedCourses) ==
  [id |-> id, track |-> track, nodeType |-> nodeType,
   relatedCourses |-> relatedCourses]

SomeStats ==
  << [tagSlug |-> "array", problemsSolved |-> 120],
     [tagSlug |-> "string", problemsSolved |-> 30] >>

SomeSkills == << [id |-> "s1", maturity_score |-> 60, maturity_level |-> "growing"] >>

\* const galaxyNodes = buildGalaxyNodes(courses, projectNodes, clusters, algoNodes)
galaxyNodes ==
  buildGalaxyNodes(courses, projectNodes, clusters,
                   buildAlgorithmNodes(leetcodeStatsRaw).nodes, skillsRegistry)

\* -------------------------------------------------------- GalaxyBackground

NumFog == 7

\* brightness values in hundredths: 1.0 is 100 and 0.12 is 12
FullBrightness == 100

SuppressedBrightness == 12

\* a uniform that does not exist yet (uFogMask = null, a material ref unset)
NoUniform == <<>>

\* createGalaxyBackground: three.js not loaded yet, no uniforms, base all 1.0
newBackground ==
  [ready |-> FALSE, uFogMask |-> NoUniform, uFogMaskStars |-> NoUniform,
   baseBrightness |-> [i \in 1..NumFog |-> FullBrightness], warpTarget |-> 0,
   lastFog |-> Null]

\* writes values into the star and lane uniforms when their materials exist
syncFogToStarsAndLanes(b, values) ==
  IF b.uFogMaskStars # NoUniform
  THEN [b EXCEPT !.uFogMaskStars =
          [i \in 1..NumFog |-> IF i <= Len(values) THEN values[i] ELSE @[i]]]
  ELSE b

setBaseBrightness(b, values) ==
  LET base == [i \in 1..NumFog |->
                 IF i <= Len(values) THEN values[i] ELSE b.baseBrightness[i]]
      b1 == [b EXCEPT !.baseBrightness = base,
                      !.uFogMask = IF @ # NoUniform THEN base ELSE @]
  IN syncFogToStarsAndLanes(b1, base)

\* lastFog remembers the argument of the last call, for the properties
setFogOfWar(b, activeClusterId) ==
  IF b.uFogMask = NoUniform THEN [b EXCEPT !.lastFog = activeClusterId]
  ELSE LET n == Min2(Len(clusters), NumFog)
           val(i) == IF activeClusterId = Null THEN b.baseBrightness[i]
                     ELSE IF clusters[i].id = activeClusterId
                          THEN FullBrightness ELSE SuppressedBrightness
           fogValues == [i \in 1..n |-> val(i)]
           b1 == [b EXCEPT !.lastFog = activeClusterId, !.uFogMask =
                    [i \in 1..NumFog |-> IF i <= n THEN fogValues[i] ELSE @[i]]]
       IN syncFogToStarsAndLanes(b1, fogValues)

\* warpTarget = Math.max(0, Math.min(1, value)), in hundredths
setWarpIntensity(b, value) ==
  [b EXCEPT !.warpTarget = Max({0, Min2(FullBrightness, value)})]

\* the three.js import resolved: the uniforms exist and take the base values
threeLoaded(b) ==
  [b EXCEPT !.ready = TRUE, !.uFogMask = b.baseBrightness,
            !.uFogMaskStars = b.baseBrightness]

\* --------------------------------------------------------------- GalaxyView

litNodes ==
  LET lit(n) == ~n.isDark /\ n.id # "CORE" IN SelectSeq(galaxyNodes, lit)

darkNodes == LET dark(n) == n.isDark IN SelectSeq(galaxyNodes, dark)

regularNodes == LET reg(n) == ~n.isStarGate IN SelectSeq(litNodes, reg)

starGateNodes == LET gate(n) == n.isStarGate IN SelectSeq(litNodes, gate)

IdsOf(nodes) == {nodes[i].id : i \in 1..Len(nodes)}

\* Math.min(1.0, 0.08 + count * 0.18) per cluster, in hundredths
clusterBrightness ==
  [i \in 1..Len(clusters) |->
     LET count == Cardinality({k \in 1..Len(litNodes) :
                                 litNodes[k].clusterId = clusters[i].id})
     IN Min2(FullBrightness, 8 + count * 18)]

\* as filterValid, but testing the target end only
filterValid_targetOnly(es, nm) ==
  LET hasTarget(e) == e.target \in DOMAIN nm
  IN SelectSeq(es, hasTarget)

\* es.filter(e => nm.has(e.source) && nm.has(e.target))
filterValid(es, nm) ==
  LET hasBoth(e) == e.source \in DOMAIN nm /\ e.target \in DOMAIN nm
  IN SelectSeq(es, hasBoth)

\* const validEdges = edges.filter(...)
validEdges == filterValid(edges, nodeMap)

\* the graph initGalaxyView builds from the page's data
builtNodeMap == MapOfNodes(galaxyNodes)

builtAlgoEdges == buildAlgorithmNodes(leetcodeStatsRaw).edges

builtEdges == buildEdges(courses, projectNodes, builtAlgoEdges)

\* ------------------------------------------------------------------ layout
\* Lengths are in units of 10^-5 px, so that cos, sin (in thousandths) and the
\* scale (in hundredths) multiply without rounding.

\* container.getBoundingClientRect() and Math.random() (in tenths)
Env(width, height, random) == [width |-> width, height |-> height, random |-> random]

SomeEnv == Env(1280, 800, 5)

\* const scale = Math.min(width, height) / 800, in hundredths
scaleOf(e) == (Min2(e.width, e.height) * 100) \div 800

\* cluster.angle as a multiple of TAU / 14
clusterAngle(id) ==
  CASE id = "physics" -> -1 [] id = "math" -> 1 [] id = "cs" -> 3
    [] id = "aiml" -> 5 [] id = "engineering" -> 7 [] id = "data" -> 9
    [] id = "business" -> 11

clusterRadius == 300

\* Math.cos(k * TAU / 14) in thousandths
cosOf(k) ==
  CASE k \in {-1, 1} -> 901 [] k \in {3, 11} -> 223 [] k \in {5, 9} -> -623
    [] k = 7 -> -1000

\* Math.sin(k * TAU / 14) in thousandths
sinOf(k) ==
  CASE k = -1 -> -434 [] k = 1 -> 434 [] k = 3 -> 975 [] k = 5 -> 782
    [] k = 7 -> 0 [] k = 9 -> -782 [] k = 11 -> -975

\* as centerOf, but a cluster with no node is anchored at the origin
centerOf_emptyAtOrigin(nodes, e, id) ==
  IF \E i \in 1..Len(nodes) : nodes[i].clusterId = id /\ nodes[i].id # "CORE"
  THEN [x |-> cosOf(clusterAngle(id)) * clusterRadius * scaleOf(e),
        y |-> sinOf(clusterAngle(id)) * clusterRadius * scaleOf(e)]
  ELSE [x |-> 0, y |-> 0]

\* clusterCenters.set(cluster.id, {x: cos(angle) * radius * scale, y: sin ...})
centerOf(nodes, e, id) ==
  [x |-> cosOf(clusterAngle(id)) * clusterRadius * scaleOf(e),
   y |-> sinOf(clusterAngle(id)) * clusterRadius * scaleOf(e)]

clusterCenters(nodes, e) == [id \in ClusterIds |-> centerOf(nodes, e, id)]

LayerGroupNames == <<"inner", "mid", "outer", "stargate">>

LAYER_RADIUS(layerName) ==
  CASE layerName = "inner" -> [min |-> 25, max |-> 65]
    [] layerName = "mid" -> [min |-> 70, max |-> 100]
    [] layerName = "outer" -> [min |-> 105, max |-> 130]
    [] layerName = "stargate" -> [min |-> 140, max |-> 160]
    [] OTHER -> [min |-> 25, max |-> 65]

\* the group a node is pushed to: const l = n.layer === 'core' ? 'inner' :
\* n.layer; if (layerGroups[l]) layerGroups[l].push(n). Null: pushed nowhere
layerGroupOf(n) ==
  LET l == IF n.layer = "core" THEN "inner" ELSE n.layer
  IN IF l \in Range(LayerGroupNames) THEN l ELSE Null

\* the radius d3.forceRadial is given: targetR + (Math.random() - 0.5) *
\* (lr.max - lr.min) * scale * 0.5, with targetR = (lr.min + lr.max) / 2 * scale
radialTarget(layerName, e) ==
  LET lr == LAYER_RADIUS(layerName)
  IN (lr.min + lr.max) * scaleOf(e) * 500
     + (e.random - 5) * (lr.max - lr.min) * scaleOf(e) * 50

\* where the 120 ticks leave the k-th node of a layer: on the radial target
\* circle around the cluster center, the nodes of a layer apart from each other
simulated(center, r, k) ==
  CASE k % 4 = 0 -> [x |-> center.x + r, y |-> center.y]
    [] k % 4 = 1 -> [x |-> center.x, y |-> center.y + r]
    [] k % 4 = 2 -> [x |-> center.x - r, y |-> center.y]
    [] k % 4 = 3 -> [x |-> center.x, y |-> center.y - r]

\* as inCluster, without the test of the cluster: every cluster takes every
\* node but the root
inCluster_any(n, cluster) == n.id # "CORE"

\* as inCluster, with the root taken into every cluster
inCluster_rootToo(n, cluster) == n.clusterId = cluster.id \/ n.id = "CORE"

\* galaxyNodes.filter(n => n.clusterId === cluster.id && n.id !== 'CORE')
inCluster(n, cluster) == n.clusterId = cluster.id /\ n.id # "CORE"

\* the layout loops applied to the node list: for each node its position, the
\* number of times the loops assigned it, and the layer band it was put in.
\* nodeMap.get('CORE') is assigned the origin; then a node is assigned once for
\* each cluster that takes it and layer group that holds it, and keeps the
\* builder's x: 0, y: 0 when none does.
layoutOf(nodes, e) ==
  LET commits(i) ==
        IF layerGroupOf(nodes[i]) = Null THEN {}
        ELSE {c \in 1..Len(clusters) : inCluster(nodes[i], clusters[c])}
      slot(i, c) ==
        Cardinality({j \in 1..(i - 1) :
                       /\ inCluster(nodes[j], clusters[c])
                       /\ layerGroupOf(nodes[j]) = layerGroupOf(nodes[i])})
      coreWrites(i) ==
        IF nodes[i].id = "CORE" /\ i = Max({j \in 1..Len(nodes) : nodes[j].id = "CORE"})
        THEN 1 ELSE 0
      placed(i) ==
        LET c == Max(commits(i))
            p == simulated(centerOf(nodes, e, clusters[c].id),
                           radialTarget(layerGroupOf(nodes[i]), e), slot(i, c))
        IN [id |-> nodes[i].id, x |-> p.x, y |-> p.y,
            writes |-> coreWrites(i) + Cardinality(commits(i)),
            band |-> layerGroupOf(nodes[i]), cluster |-> clusters[c].id]
  IN [i \in 1..Len(nodes) |->
        IF commits(i) = {}
        THEN [id |-> nodes[i].id, x |-> 0, y |-> 0, writes |-> coreWrites(i),
              band |-> Null, cluster |-> Null]
        ELSE placed(i)]

\* the view as initGalaxyView leaves it: nothing hovered, no panel, no class,
\* the background created and given the per-cluster base brightness
newView ==
  [bg |-> setBaseBrightness(newBackground, clusterBrightness),
   pointer |-> Null,
   detailVisible |-> FALSE, detailNode |-> Null,
   sgVisible |-> FALSE, sgNode |-> Null,
   stargateFocus |-> FALSE,
   starClasses |-> [id \in IdsOf(regularNodes) \cup IdsOf(starGateNodes) |-> {}],
   edgeClasses |-> [i \in 1..Len(filterValid(builtEdges, builtNodeMap)) |-> {}],
   energyDots |-> {},
   darkVisible |-> {},
   activeNavBtn |-> Null,
   svgTransition |-> Null,
   svgSize |-> [width |-> env.width, height |-> env.height],
   centers |-> clusterCenters(galaxyNodes, env),
   pos |-> layoutOf(galaxyNodes, env)]

RECURSIVE GV_collectPrereqChain(_, _), GV_collectPrereqEach(_, _, _)
\* for (const x of list) collectPrereqChain(x, visited)
GV_collectPrereqEach(list, i, visited) ==
  IF i > Len(list) THEN visited
  ELSE GV_collectPrereqEach(list, i + 1, GV_collectPrereqChain(list[i], visited))

GV_collectPrereqChain(nodeId, visited) ==
  IF nodeId \in visited THEN visited
  ELSE LET v1 == visited \cup {nodeId}
       IN IF nodeId \notin DOMAIN nodeMap THEN v1
          ELSE LET node == nodeMap[nodeId]
                   v2 == GV_collectPrereqEach(node.prerequisites, 1, v1)
               IN GV_collectPrereqEach(node.relatedCourses, 1, v2)

RECURSIVE GV_collectDownstreamChain(_, _), GV_downstreamCourses(_, _, _),
          GV_downstreamProjects(_, _, _), GV_downstreamAlgo(_, _, _)
GV_downstreamCourses(nodeId, i, visited) ==
  IF i > Len(courses) THEN visited
  ELSE GV_downstreamCourses(nodeId, i + 1,
         IF nodeId \in Range(courses[i].prerequisites)
         THEN GV_collectDownstreamChain(courses[i].id, visited)
         ELSE visited)

GV_downstreamProjects(nodeId, i, visited) ==
  IF i > Len(projectNodes) THEN visited
  ELSE GV_downstreamProjects(nodeId, i + 1,
         IF nodeId \in Range(projectNodes[i].relatedCourses)
         THEN GV_collectDownstreamChain(projectNodes[i].id, visited)
         ELSE visited)

\* for (const e of algoEdges) if (e.source === nodeId) recurse(e.target)
GV_downstreamAlgo(nodeId, i, visited) ==
  IF i > Len(algoEdges) THEN visited
  ELSE GV_downstreamAlgo(nodeId, i + 1,
         IF algoEdges[i].source = nodeId
         THEN GV_collectDownstreamChain(algoEdges[i].target, visited)
         ELSE visited)

GV_collectDownstreamChain(nodeId, visited) ==
  IF nodeId \in visited THEN visited
  ELSE LET v1 == visited \cup {nodeId}
           v2 == GV_downstreamCourses(nodeId, 1, v1)
           v3 == GV_downstreamProjects(nodeId, 1, v2)
       IN GV_downstreamAlgo(nodeId, 1, v3)

GV_collectUpstreamSkills(nodeId) ==
  IF nodeId \notin DOMAIN nodeMap THEN {}
  ELSE LET node == nodeMap[nodeId]
           isProjectLike == node.nodeType \in ProjectLikeTypes
       IN IF ~isProjectLike /\ ~node.isStarGate THEN {}
          ELSE Range(node.relatedCourses)
               \cup UNION {IF cid \in DOMAIN nodeMap
                           THEN Range(nodeMap[cid].prerequisites) ELSE {}
                           : cid \in Range(node.relatedCourses)}
               \cup Range(node.prerequisites)

\* one .energy-dot circle: its class, the edge it runs along (0 for an
\* overclock particle), its ends and its number p
Dot(cls, edge, source, target, p) ==
  [cls |-> cls, edge |-> edge, source |-> source, target |-> target, p |-> p]

\* removes every .energy-dot, then appends two per active edge
spawnEnergyParticles(dots, activeEdges) ==
  LET es == validEdges
  IN {Dot("energy-dot", i, es[i].source, es[i].target, p) :
        i \in activeEdges, p \in 0..1}

\* appends three overclock particles per target that has a lit or CORE node
spawnOverclockParticles(dots, sourceId, targetIds) ==
  dots \cup {Dot("energy-dot overclock-particle", 0, sourceId, tid, p) :
               tid \in {x \in targetIds : x \in DOMAIN nodeMap /\ ~nodeMap[x].isDark},
               p \in 0..2}

\* as clearEnergyParticles, but leaving the overclock particles
clearEnergyParticles_keepsOverclock(dots) ==
  {d \in dots : d.cls = "energy-dot overclock-particle"}

\* energyGroup.selectAll('.energy-dot').interrupt().remove()
clearEnergyParticles(dots) == {}

\* as chainClasses, with 'highlighted' on the hovered node too
chainClasses_selfHighlighted(n, d, chain, overclocked) ==
  (IF n \notin chain THEN {"dimmed"} ELSE {})
  \cup (IF n \in chain THEN {"highlighted"} ELSE {})
  \cup (IF n \in overclocked THEN {"overclocked"} ELSE {})

\* the three allStarElements.classed(...) calls of highlightChain, for star n
chainClasses(n, d, chain, overclocked) ==
  (IF n \notin chain THEN {"dimmed"} ELSE {})
  \cup (IF n \in chain /\ n # d THEN {"highlighted"} ELSE {})
  \cup (IF n \in overclocked THEN {"overclocked"} ELSE {})

\* the view after highlightChain(d), d the id of a node
highlightChain(v, d) ==
  LET chain == GV_collectDownstreamChain(d, GV_collectPrereqChain(d, {}))
      overclocked == GV_collectUpstreamSkills(d)
      es == validEdges
      inChain(i) == es[i].source \in chain /\ es[i].target \in chain
      isOverclockEdge(i) == es[i].source \in overclocked
                            \/ es[i].target \in overclocked
      activeEdges == {i \in DOMAIN v.edgeClasses : inChain(i)}
      dots1 == spawnEnergyParticles(v.energyDots, activeEdges)
  IN [v EXCEPT
        !.starClasses = [n \in DOMAIN @ |-> chainClasses(n, d, chain, overclocked)],
        !.edgeClasses = [i \in DOMAIN @ |->
           (IF inChain(i) THEN {"highlighted"} ELSE {"dimmed"})
           \cup (IF inChain(i) /\ isOverclockEdge(i) THEN {"overclocked"} ELSE {})],
        !.energyDots = IF overclocked # {}
                       THEN spawnOverclockParticles(dots1, d, overclocked)
                       ELSE dots1]

clearHighlight(v) ==
  [v EXCEPT !.starClasses = [n \in DOMAIN @ |-> {}],
            !.edgeClasses = [i \in DOMAIN @ |-> {}],
            !.energyDots = clearEnergyParticles(@),
            !.darkVisible = {},
            !.stargateFocus = FALSE]

\* warp intensity in hundredths: 1.0 is 100
FullWarp == 100

\* starElements: the elements bound to regularNodes
starElements(v) == {id \in DOMAIN v.starClasses : ~nodeMap[id].isStarGate}

\* starGateElements: the elements bound to starGateNodes
starGateElements(v) == {id \in DOMAIN v.starClasses : nodeMap[id].isStarGate}

\* darkStarElements.filter(ds => ds.clusterId === clusterId)
darkIdsIn(clusterId) ==
  {id \in DOMAIN nodeMap : nodeMap[id].isDark /\ nodeMap[id].clusterId = clusterId}

\* starElements.on('mouseenter')
starMouseEnter(v, d) ==
  LET v1 == highlightChain(v, d)
  IN [v1 EXCEPT !.darkVisible = @ \cup darkIdsIn(nodeMap[d].clusterId)]

\* starGateElements.on('mouseenter')
starGateMouseEnter(v, d) == highlightChain([v EXCEPT !.stargateFocus = TRUE], d)

closePanel(v) == clearHighlight([v EXCEPT !.detailVisible = FALSE])

closeStarGatePanel(v) == [v EXCEPT !.sgVisible = FALSE, !.stargateFocus = FALSE]

closeAll(v) ==
  LET v1 == clearHighlight(closeStarGatePanel(closePanel(v)))
  IN [v1 EXCEPT !.bg = setFogOfWar(@, Null)]

\* fills the detail panel for node d, shows it and highlights d's chain
showDetailPanel(v, d) ==
  highlightChain([v EXCEPT !.detailVisible = TRUE, !.detailNode = d], d)

\* starElements.on('click')
starClick(v, d) == showDetailPanel(closeStarGatePanel(v), d)

\* starGateElements.on('click')
starGateClick(v, d) ==
  LET v1 == closePanel(v)
      v2 == [v1 EXCEPT !.bg = setFogOfWar(setWarpIntensity(@, FullWarp),
                                          nodeMap[d].clusterId),
                       !.stargateFocus = TRUE,
                       !.svgTransition = "flyin"]
      v3 == highlightChain(v2, d)
  IN [v3 EXCEPT !.sgVisible = TRUE, !.sgNode = d]

\* the .sg-close-btn listener
sgCloseClick(v) ==
  LET v1 == clearHighlight(closeStarGatePanel(v))
  IN [v1 EXCEPT !.bg = setFogOfWar(@, Null), !.svgTransition = "reset"]

\* a .cluster-nav-btn listener; every cluster has a centre
clusterNavClick(v, clusterId) ==
  LET v1 == closeAll(v)
  IN [v1 EXCEPT !.bg = setFogOfWar(setWarpIntensity(@, FullWarp), clusterId),
                !.svgTransition = "nav",
                !.darkVisible = darkIdsIn(clusterId),
                !.activeNavBtn = clusterId]

\* the .zoom-reset listener
zoomResetClick(v) ==
  LET v1 == closeAll(v)
  IN [v1 EXCEPT !.bg = setFogOfWar(setWarpIntensity(@, 0), Null),
                !.svgTransition = "reset",
                !.darkVisible = {},
                !.activeNavBtn = Null]

\* the .zoom-in and .zoom-out listeners: a new transition on the svg
zoomButtonClick(v) == [v EXCEPT !.svgTransition = "scale"]

\* the running svg transition ends; the fly-in and the navigation transitions
\* carry on('end', () => bg.setWarpIntensity(0.0))
transitionEnd(v) ==
  [v EXCEPT !.bg = IF v.svgTransition \in {"flyin", "nav"}
                   THEN setWarpIntensity(@, 0) ELSE @,
            !.svgTransition = Null]

\* d.id.startsWith('algo-'): the ids of the algorithm topics
isAlgo(id) == id \in {ALGO_TOPICS[i].id : i \in 1..Len(ALGO_TOPICS)}

\* nodeEl = starElements.filter(n => n.id === id); nodeEl.dispatch('click')
dispatchStarClick(v, id) ==
  IF id \in starElements(v) THEN starClick(v, id) ELSE v

\* the clickable items showDetailPanel(d) puts in the panel: the id each leads
\* to, and whether its listener calls showDetailPanel or dispatches a click
detailItems(d) ==
  LET node == nodeMap[d]
      prereqs == {x \in Range(node.prerequisites) : x \in DOMAIN nodeMap}
      isProjectLike == node.nodeType \in ProjectLikeTypes
      referencing == {projectNodes[i].id : i \in {k \in 1..Len(projectNodes) :
                         d \in Range(projectNodes[k].relatedCourses)}}
      prereqItems ==
        IF isAlgo(d) /\ Len(node.prerequisites) > 0
          THEN {[id |-> x, how |-> "show"] : x \in prereqs}
        ELSE IF Len(node.prerequisites) > 0
          THEN {[id |-> x, how |-> "dispatch"] : x \in prereqs}
        ELSE IF isProjectLike /\ Len(node.relatedCourses) > 0
          THEN {[id |-> x, how |-> "dispatch"] :
                  x \in {y \in Range(node.relatedCourses) : y \in DOMAIN nodeMap}}
        ELSE {}
      projectItems ==
        IF ~isAlgo(d) /\ ~isProjectLike
        THEN {[id |-> x, how |-> "dispatch"] : x \in referencing \cap DOMAIN nodeMap}
        ELSE {}
  IN prereqItems \cup projectItems

detailItemClick(v, item) ==
  IF item.how = "show" THEN showDetailPanel(v, item.id)
  ELSE dispatchStarClick(v, item.id)

\* the .sg-stack-chip elements of the star-gate panel of d
sgChips(d) == {x \in Range(nodeMap[d].relatedCourses) : x \in DOMAIN nodeMap}

sgChipClick(v, cid) == showDetailPanel(closeStarGatePanel(v), cid)

\* ----------------------------------------------------------------- TechTree

\* one positioned node: what the handlers read of it
NodeDatum(id, isProject, prerequisites, relatedCourses) ==
  [id |-> id, isProject |-> isProject, prerequisites |-> prerequisites,
   relatedCourses |-> relatedCourses]

\* new Map(positionedNodes.map(n => [n.id, n])): courses first, then projects
TT_nodeMap ==
  LET cIds == {courses[i].id : i \in 1..Len(courses)}
      pIds == {projectNodes[i].id : i \in 1..Len(projectNodes)}
      lastCourse(id) == courses[Max({i \in 1..Len(courses) : courses[i].id = id})]
      lastProject(id) ==
        projectNodes[Max({i \in 1..Len(projectNodes) : projectNodes[i].id = id})]
  IN [id \in cIds \cup pIds |->
        IF id \in pIds
        THEN NodeDatum(id, TRUE, <<>>, lastProject(id).relatedCourses)
        ELSE NodeDatum(id, FALSE, lastCourse(id).prerequisites, <<>>)]

\* links: one per prerequisite of a course and per related course of a
\* project, kept when both ends have a node
TT_links ==
  LET known(id) == id \in DOMAIN TT_nodeMap
      ofCourse(c) ==
        LET keep(pre) == known(pre) /\ known(c.id)
            pres == SelectSeq(c.prerequisites, keep)
        IN [k \in 1..Len(pres) |-> [source |-> pres[k], target |-> c.id]]
      ofProject(p) ==
        LET keep(cid) == known(cid) /\ known(p.id)
            rels == SelectSeq(p.relatedCourses, keep)
        IN [k \in 1..Len(rels) |-> [source |-> rels[k], target |-> p.id]]
  IN ConcatAll([i \in 1..Len(courses) |-> ofCourse(courses[i])])
     \o ConcatAll([i \in 1..Len(projectNodes) |-> ofProject(projectNodes[i])])

RECURSIVE TT_collectPrereqChain(_, _), TT_collectPrereqEach(_, _, _)
TT_collectPrereqEach(list, i, visited) ==
  IF i > Len(list) THEN visited
  ELSE TT_collectPrereqEach(list, i + 1, TT_collectPrereqChain(list[i], visited))

\* related courses are followed only from a node with isProject
TT_collectPrereqChain(nodeId, visited) ==
  IF nodeId \in visited THEN visited
  ELSE LET v1 == visited \cup {nodeId}
       IN IF nodeId \notin DOMAIN TT_nodeMap THEN v1
          ELSE LET node == TT_nodeMap[nodeId]
                   v2 == TT_collectPrereqEach(node.prerequisites, 1, v1)
               IN IF node.isProject
                  THEN TT_collectPrereqEach(node.relatedCourses, 1, v2)
                  ELSE v2

RECURSIVE TT_collectDownstreamChain(_, _), TT_downstreamCourses(_, _, _),
          TT_downstreamProjects(_, _, _)
TT_downstreamCourses(nodeId, i, visited) ==
  IF i > Len(courses) THEN visited
  ELSE TT_downstreamCourses(nodeId, i + 1,
         IF nodeId \in Range(courses[i].prerequisites)
         THEN TT_collectDownstreamChain(courses[i].id, visited)
         ELSE visited)

TT_downstreamProjects(nodeId, i, visited) ==
  IF i > Len(projectNodes) THEN visited
  ELSE TT_downstreamProjects(nodeId, i + 1,
         IF nodeId \in Range(projectNodes[i].relatedCourses)
         THEN TT_collectDownstreamChain(projectNodes[i].id, visited)
         ELSE visited)

TT_collectDownstreamChain(nodeId, visited) ==
  IF nodeId \in visited THEN visited
  ELSE LET v1 == visited \cup {nodeId}
           v2 == TT_downstreamCourses(nodeId, 1, v1)
       IN TT_downstreamProjects(nodeId, 1, v2)

\* the tech tree as initTechTree leaves it
TT_new ==
  [pointer |-> Null, panelVisible |-> FALSE, panelNode |-> Null,
   nodeClasses |-> [id \in DOMAIN TT_nodeMap |-> {}],
   edgeClasses |-> [i \in 1..Len(TT_links) |-> {}],
   lastEvent |-> "init"]

\* nodeElements.on('mouseleave')
TT_mouseleave(t) ==
  [t EXCEPT !.nodeClasses = [n \in DOMAIN @ |-> {}],
            !.edgeClasses = [i \in DOMAIN @ |-> {}]]

\* nodeElements.on('mouseenter')
TT_mouseenter(t, d) ==
  LET chain == TT_collectDownstreamChain(d, TT_collectPrereqChain(d, {}))
      inChain(i) == TT_links[i].source \in chain /\ TT_links[i].target \in chain
  IN [t EXCEPT
        !.nodeClasses = [n \in DOMAIN @ |->
           (IF n \notin chain THEN {"dimmed"} ELSE {})
           \cup (IF n \in chain /\ n # d THEN {"highlighted"} ELSE {})],
        !.edgeClasses = [i \in DOMAIN @ |->
           IF inChain(i) THEN {"highlighted"} ELSE {"dimmed"}]]

\* nodeElements.on('click'): shows the panel and sets 'highlighted' on the
\* edges of the upstream chain, off on the others
TT_click(t, d) ==
  LET chain == TT_collectPrereqChain(d, {})
      inChain(i) == TT_links[i].source \in chain /\ TT_links[i].target \in chain
  IN [t EXCEPT
        !.panelVisible = TRUE, !.panelNode = d,
        !.edgeClasses = [i \in DOMAIN @ |->
           IF inChain(i) THEN @[i] \cup {"highlighted"}
           ELSE @[i] \ {"highlighted"}]]

TT_closePanel(t) ==
  [t EXCEPT !.panelVisible = FALSE,
            !.edgeClasses = [i \in DOMAIN @ |-> @[i] \ {"highlighted"}]]

\* the ids the clickable items of the panel of d lead to
TT_items(d) ==
  LET node == TT_nodeMap[d]
      referencing == {projectNodes[i].id : i \in {k \in 1..Len(projectNodes) :
                         d \in Range(projectNodes[k].relatedCourses)}}
  IN IF node.isProject
     THEN Range(node.relatedCourses) \cap DOMAIN TT_nodeMap
     ELSE (Range(node.prerequisites) \cup referencing) \cap DOMAIN TT_nodeMap

\* before the graph is built
\* an island whose init function has not run has no state yet
NoIsland == [mounted |-> FALSE]

NotBuilt ==
  /\ phase = "loaded" /\ nodeMap = <<>> /\ algoEdges = <<>> /\ edges = <<>>
  /\ view = NoIsland /\ lastEvent = "none"
  /\ tt = NoIsland

\* "Build data": what initGalaxyView builds from the inputs before anything
\* else runs
BuildData ==
  /\ phase = "loaded"
  /\ phase' = "built"
  /\ nodeMap' = builtNodeMap
  /\ algoEdges' = builtAlgoEdges
  /\ edges' = builtEdges
  /\ view' = newView
  /\ lastEvent' = "init"
  /\ UNCHANGED <<inputVars, managerVars, tt>>

NoCall == [op |-> "none", arg |-> Null, ret |-> Null, again |-> FALSE]

NothingHeld == [ref |-> Null, seen |-> Null]

\* observeVisibility(element, onVisible) has been called: no instance yet, no
\* frame requested (handles count the requestAnimationFrame calls); cleanup is
\* the number of the instance whose cleanup function it holds, 0 for null
NewCard ==
  [cleanup |-> 0, loops |-> <<>>, pending |-> {}, handles |-> 0, now |-> 0,
   live |-> {}, overlapped |-> FALSE, cleanupLog |-> <<>>]

\* ----------------------------------------------- scripts/fetch-leetcode.ts
\* LeetCodeStats; of the four counters only totalSolved is kept, the other
\* three are filled the same way and read by nothing
Stats(username, totalSolved, tagStats) ==
  [username |-> username, totalSolved |-> totalSolved, tagStats |-> tagStats]

Tag(tagSlug, problemsSolved) == [tagSlug |-> tagSlug, problemsSolved |-> problemsSolved]

\* getUsername(): the argument after --username, else the default
getUsername(args) ==
  LET at == {i \in 1..Len(args) : args[i] = "--username"}
  IN IF at # {} /\ Least(at) < Len(args) /\ args[Least(at) + 1] # ""
     THEN args[Least(at) + 1] ELSE "Vikalaka"

RECURSIVE mergeTags(_, _)
\* the tagMap loop: a slug keeps the place of its first entry and the largest
\* problemsSolved seen
mergeTags(tagMap, tags) ==
  IF tags = <<>> THEN tagMap
  ELSE LET tag == Head(tags)
           at == {i \in 1..Len(tagMap) : tagMap[i].tagSlug = tag.tagSlug}
           next == IF at = {} THEN Append(tagMap, tag)
                   ELSE [i \in 1..Len(tagMap) |->
                           IF i \in at /\ tagMap[i].problemsSolved < tag.problemsSolved
                           THEN tag ELSE tagMap[i]]
       IN mergeTags(next, Tail(tags))

\* for (const level of [counts.fundamental, counts.intermediate,
\* counts.advanced]); a level that is missing is the empty list
tagStatsOf(counts) ==
  mergeTags(<<>>, counts.fundamental \o counts.intermediate \o counts.advanced)

\* byDiff[difficulty] || 0
byDiff(acStats, difficulty) ==
  LET at == {i \in 1..Len(acStats) : acStats[i].difficulty = difficulty}
  IN IF at = {} THEN 0 ELSE acStats[Max(at)].count

\* what fetchOfficialStats returns for a response that does not throw
fetchOfficialStats(username, response) ==
  Stats(username, byDiff(response.acStats, "All"), tagStatsOf(response.counts))

\* what fetchFallbackStats returns when the solved endpoint answers; the tags
\* are read only when the skill endpoint answers too
fetchFallbackStats(username, response) ==
  Stats(username, response.solvedProblem,
        IF response.skillOk THEN tagStatsOf(response.counts) ELSE <<>>)

\* as hasStats, testing the solved count only
hasStats_totalOnly(stats) == stats.totalSolved > 0

\* stats.totalSolved > 0 || stats.tagStats.length > 0
hasStats(stats) == stats.totalSolved > 0 \/ Len(stats.tagStats) > 0

\* the stats writeEmptyStats writes
emptyStats(username) == Stats(username, 0, <<>>)

\* writeStats(stats): the file is replaced
writeStats(f, stats, what) ==
  [f EXCEPT !.file = stats, !.log = Append(@, what)]

\* the process before main() runs: its arguments and the committed file
BeforeMain(args, committed) ==
  [pc |-> "idle", args |-> args, username |-> "", file |-> committed,
   official |-> "none", officialStats |-> emptyStats(""),
   fallback |-> "none", fallbackStats |-> emptyStats(""), log |-> <<>>]

\* main() of the stats fetcher has not been run
NotStarted == BeforeMain(<<>>, emptyStats("Vikalaka"))

\* energyGroup is empty, no transition runs, the pointer is on no star
NoParticles == [pointer |-> Null, dots |-> {}, loops |-> {}, calls |-> 0]

\* the layout loops have not been applied to any list
NoLayout == [nodes |-> <<>>, pos |-> <<>>, centers |-> <<>>]

\* no traversal has been started
NoTraversal ==
  [variant |-> Null, dir |-> Null, start |-> Null, stack |-> <<>>,
   visited |-> {}, expanded |-> <<>>]

ManagerInit ==
  /\ state = EmptyState /\ lastCall = NoCall /\ held = NothingHeld
  /\ trav = NoTraversal /\ lay = NoLayout
  /\ card = NewCard /\ fetcher = NotStarted /\ anim = NoParticles

\* every graph over two courses and one project record
InitChain ==
  /\ \E pre1 \in InjSeqs({"c2", "zz"}, MaxList), pre2 \in IdLists,
        nt2 \in {Null, "internship"} :
       courses = << Course("c1", "physics", "A", Null, pre1),
                    Course("c2", "ml", "A", nt2, pre2) >>
  /\ \E rel \in IdLists,
        p \in {<<"p1", Null>>, <<"proj-blade", "course">>} :
       projectNodes = << Project(p[1], Null, p[2], rel) >>
  /\ leetcodeStatsRaw = SomeStats
  /\ skillsRegistry = SomeSkills
  /\ env = SomeEnv
  /\ NotBuilt
  /\ ManagerInit

\* ids a caller may pass: node ids, an id of no node, null
CallArgs == {"c1", "c2", "p1", "proj-blade", "algo-array-hash", "algo-string", "zz"}

\* ---------------------------------------------------------------- actions

Hover(nodeId) ==
  /\ phase = "built"
  /\ state' = hover(nodeId)
  /\ lastCall' = [op |-> "hover", arg |-> nodeId, ret |-> returned(state'),
                  again |-> FALSE]
  /\ Keep(returned(state'), state')
  /\ UNCHANGED <<inputVars, builtVars, viewVars, tt, trav, lay, card, fetcher, anim>>

Select(nodeId) ==
  /\ phase = "built"
  /\ state' = select(nodeId)
  /\ lastCall' = [op |-> "select", arg |-> nodeId, ret |-> returned(state'),
                  again |-> FALSE]
  /\ Keep(returned(state'), state')
  /\ UNCHANGED <<inputVars, builtVars, viewVars, tt, trav, lay, card, fetcher, anim>>

Reset ==
  /\ phase = "built"
  /\ state' = reset
  /\ lastCall' = [op |-> "reset", arg |-> Null, ret |-> returned(state'),
                  again |-> lastCall.op = "reset"]
  /\ Keep(returned(state'), state')
  /\ UNCHANGED <<inputVars, builtVars, viewVars, tt, trav, lay, card, fetcher, anim>>

CallCollectChain(nodeId) ==
  /\ phase = "built"
  /\ lastCall' = [op |-> "collectChain", arg |-> nodeId, ret |-> collectChain(nodeId),
                  again |-> FALSE]
  /\ UNCHANGED <<inputVars, builtVars, state, held, viewVars, tt, trav, lay, card, fetcher, anim>>

\* the three traversals applied on their own, each from an empty visited set
CallCollectPrereqChain(nodeId) ==
  /\ phase = "built"
  /\ lastCall' = [op |-> "collectPrereqChain", arg |-> nodeId,
                  ret |-> collectPrereqChain(nodeId, {}), again |-> FALSE]
  /\ UNCHANGED <<inputVars, builtVars, state, held, viewVars, tt, trav, lay, card, fetcher, anim>>

CallCollectDownstreamChain(nodeId) ==
  /\ phase = "built"
  /\ lastCall' = [op |-> "collectDownstreamChain", arg |-> nodeId,
                  ret |-> collectDownstreamChain(nodeId, {}), again |-> FALSE]
  /\ UNCHANGED <<inputVars, builtVars, state, held, viewVars, tt, trav, lay, card, fetcher, anim>>

CallCollectUpstreamSkills(nodeId) ==
  /\ phase = "built"
  /\ lastCall' = [op |-> "collectUpstreamSkills", arg |-> nodeId,
                  ret |-> collectUpstreamSkills(nodeId), again |-> FALSE]
  /\ UNCHANGED <<inputVars, builtVars, state, held, viewVars, tt, trav, lay, card, fetcher, anim>>

NextChain ==
  \/ BuildData
  \/ \E n \in CallArgs : CallCollectChain(n)
  \/ \E n \in CallArgs : CallCollectPrereqChain(n)
  \/ \E n \in CallArgs : CallCollectDownstreamChain(n)
  \/ \E n \in CallArgs : CallCollectUpstreamSkills(n)

SpecChain == InitChain /\ [][NextChain]_vars

\* a handful of graphs: c2 may require c1, the star-gate project may draw on
\* c2 or on an id of no node
InitInteraction ==
  /\ \E pre2 \in {<<>>, <<"c1">>} :
       courses = << Course("c1", "physics", "A", Null, <<>>),
                    Course("c2", "ml", "A", Null, pre2) >>
  /\ \E rel \in {<<"c2">>, <<"zz", "c1">>} :
       projectNodes = << Project("proj-blade", Null, Null, rel) >>
  /\ leetcodeStatsRaw = SomeStats
  /\ skillsRegistry = SomeSkills
  /\ env = SomeEnv
  /\ NotBuilt
  /\ ManagerInit

\* what the rendering layer passes to hover and select
HoverArgs == {Null, "c2", "proj-blade", "algo-string", "zz"}

NextInteraction ==
  \/ BuildData
  \/ \E n \in HoverArgs : Hover(n)
  \/ \E n \in HoverArgs : Select(n)
  \/ Reset
  \/ \E n \in HoverArgs \ {Null} : CallCollectChain(n)

SpecInteraction == InitInteraction /\ [][NextInteraction]_vars

\* ------------------------------------------------------- GalaxyView actions

\* a handler of the galaxy view ran and left the view as v
ViewEvent(name, v) ==
  /\ view' = v
  /\ lastEvent' = name
  /\ UNCHANGED <<inputVars, builtVars, managerVars, tt>>

\* the three.js import resolves
ThreeLoaded ==
  /\ phase = "built"
  /\ ~view.bg.ready
  /\ view' = [view EXCEPT !.bg = threeLoaded(@)]
  /\ UNCHANGED <<inputVars, builtVars, managerVars, lastEvent, tt>>

StarMouseEnter(d) ==
  /\ phase = "built"
  /\ view.pointer = Null
  /\ d \in starElements(view)
  /\ ViewEvent("star-mouseenter", [starMouseEnter(view, d) EXCEPT !.pointer = d])

StarMouseLeave ==
  /\ phase = "built"
  /\ view.pointer \in starElements(view)
  /\ ViewEvent("star-mouseleave", [clearHighlight(view) EXCEPT !.pointer = Null])

StarGateMouseEnter(d) ==
  /\ phase = "built"
  /\ view.pointer = Null
  /\ d \in starGateElements(view)
  /\ ViewEvent("stargate-mouseenter",
               [starGateMouseEnter(view, d) EXCEPT !.pointer = d])

StarGateMouseLeave ==
  /\ phase = "built"
  /\ view.pointer \in starGateElements(view)
  /\ ViewEvent("stargate-mouseleave", [clearHighlight(view) EXCEPT !.pointer = Null])

StarClick ==
  /\ phase = "built"
  /\ view.pointer \in starElements(view)
  /\ ViewEvent("star-click", starClick(view, view.pointer))

StarGateClick ==
  /\ phase = "built"
  /\ view.pointer \in starGateElements(view)
  /\ ViewEvent("stargate-click", starGateClick(view, view.pointer))

\* a click on an item of the open detail panel
DetailItemClick ==
  /\ phase = "built"
  /\ view.pointer = Null
  /\ view.detailVisible
  /\ \E item \in detailItems(view.detailNode) :
       ViewEvent("detail-item-click", detailItemClick(view, item))

\* a click on a chip of the open star-gate panel
SgChipClick ==
  /\ phase = "built"
  /\ view.pointer = Null
  /\ view.sgVisible
  /\ \E cid \in sgChips(view.sgNode) :
       ViewEvent("sg-chip-click", sgChipClick(view, cid))

DetailCloseClick ==
  /\ phase = "built"
  /\ view.pointer = Null
  /\ view.detailVisible
  /\ ViewEvent("detail-close", closePanel(view))

SgCloseClick ==
  /\ phase = "built"
  /\ view.pointer = Null
  /\ view.sgVisible
  /\ ViewEvent("sg-close", sgCloseClick(view))

\* svg.on('click', closeAll): a click that no star stopped
BackgroundClick ==
  /\ phase = "built"
  /\ view.pointer = Null
  /\ ViewEvent("background-click", closeAll(view))

ClusterNavClick(clusterId) ==
  /\ phase = "built"
  /\ view.pointer = Null
  /\ ViewEvent("cluster-nav", clusterNavClick(view, clusterId))

ZoomResetClick ==
  /\ phase = "built"
  /\ view.pointer = Null
  /\ ViewEvent("zoom-reset", zoomResetClick(view))

ZoomButtonClick ==
  /\ phase = "built"
  /\ view.pointer = Null
  /\ ViewEvent("zoom-button", zoomButtonClick(view))

TransitionEnd ==
  /\ phase = "built"
  /\ view.svgTransition # Null
  /\ view' = transitionEnd(view)
  /\ UNCHANGED <<inputVars, builtVars, managerVars, lastEvent, tt>>

\* --------------------------------------------------------- TechTree actions

\* initTechTree: the page mounts the tech tree on the same data
InitTechTree ==
  /\ phase = "loaded"
  /\ phase' = "techtree"
  /\ tt' = TT_new
  /\ UNCHANGED <<inputVars, nodeMap, edges, algoEdges, managerVars, viewVars>>

TTEvent(name, t) ==
  /\ tt' = [t EXCEPT !.lastEvent = name]
  /\ UNCHANGED <<inputVars, builtVars, managerVars, viewVars>>

TTMouseEnter(d) ==
  /\ phase = "techtree"
  /\ tt.pointer = Null
  /\ d \in DOMAIN TT_nodeMap
  /\ TTEvent("mouseenter", [TT_mouseenter(tt, d) EXCEPT !.pointer = d])

TTMouseLeave ==
  /\ phase = "techtree"
  /\ tt.pointer # Null
  /\ TTEvent("mouseleave", [TT_mouseleave(tt) EXCEPT !.pointer = Null])

TTClick ==
  /\ phase = "techtree"
  /\ tt.pointer # Null
  /\ TTEvent("click", TT_click(tt, tt.pointer))

\* a click on an item of the open panel dispatches a click on that node
TTItemClick ==
  /\ phase = "techtree"
  /\ tt.pointer = Null
  /\ tt.panelVisible
  /\ \E id \in TT_items(tt.panelNode) : TTEvent("item-click", TT_click(tt, id))

\* the panel's .close-btn
TTCloseClick ==
  /\ phase = "techtree"
  /\ tt.pointer = Null
  /\ tt.panelVisible
  /\ TTEvent("close", TT_closePanel(tt))

\* svg.on('click', closePanel): a click that no node stopped
TTBackgroundClick ==
  /\ phase = "techtree"
  /\ tt.pointer = Null
  /\ TTEvent("background-click", TT_closePanel(tt))

\* two courses, a star-gate project and an ordinary project
InitView ==
  /\ \E pre2 \in {<<>>, <<"c1">>} :
       courses = << Course("c1", "physics", "A", Null, <<>>),
                    Course("c2", "ml", "A", Null, pre2) >>
  /\ \E rel \in {<<"c2">>, <<"c1", "zz">>} :
       projectNodes = << Project("proj-blade", Null, Null, rel),
                         Project("p1", "physics", Null, <<"c1">>) >>
  /\ leetcodeStatsRaw = SomeStats
  /\ skillsRegistry = SomeSkills
  /\ env = SomeEnv
  /\ NotBuilt
  /\ ManagerInit

\* window 'resize': the svg takes the container's new size and the
\* background is resized; nothing is laid out again
Resize(nw, nh) ==
  /\ phase = "built"
  /\ ViewEvent("resize", [view EXCEPT !.svgSize = [width |-> nw, height |-> nh]])

\* the sizes the window is resized to
ResizeTo == {<<1024, 768>>}

\* the stars the pointer visits and the sidebar buttons that get clicked
PointerTargets == {"c2", "p1", "proj-blade", "algo-string"}

NavClusters == {"physics", "aiml"}

NextView ==
  \/ BuildData
  \/ ThreeLoaded
  \/ \E d \in PointerTargets : StarMouseEnter(d)
  \/ StarMouseLeave
  \/ \E d \in PointerTargets : StarGateMouseEnter(d)
  \/ StarGateMouseLeave
  \/ StarClick
  \/ StarGateClick
  \/ DetailItemClick
  \/ SgChipClick
  \/ DetailCloseClick
  \/ SgCloseClick
  \/ BackgroundClick
  \/ \E c \in NavClusters : ClusterNavClick(c)
  \/ ZoomResetClick
  \/ ZoomButtonClick
  \/ TransitionEnd
  \/ \E s \in ResizeTo : Resize(s[1], s[2])
  \/ InitTechTree
  \/ \E d \in PointerTargets : TTMouseEnter(d)
  \/ TTMouseLeave
  \/ TTClick
  \/ TTItemClick
  \/ TTCloseClick
  \/ TTBackgroundClick

SpecView == InitView /\ [][NextView]_vars

\* a running svg transition runs on its timer and ends unless another one
\* replaces it; the user is free to do nothing
SpecViewFair == SpecView /\ WF_vars(TransitionEnd)

\* ------------------------------------------------------------ traversal steps
\* The chain traversals, one call or loop iteration at a time: the call stack
\* of the recursion is explicit, so that a traversal that never returns is a
\* behaviour of the model.

\* if (visited.has(nodeId)) return, ignoring the visited set
visitedHas_never(visited, nodeId) == FALSE

\* if (visited.has(nodeId)) return
visitedHas(visited, nodeId) == nodeId \in visited

\* the ids the body of collectPrereqChain recurses into, in loop order
upstreamCalls(variant, nodeId) ==
  IF variant = "GI"
  THEN IF nodeId \notin DOMAIN nodeMap THEN <<>>
       ELSE nodeMap[nodeId].prerequisites \o nodeMap[nodeId].relatedCourses
  ELSE IF nodeId \notin DOMAIN TT_nodeMap THEN <<>>
       ELSE TT_nodeMap[nodeId].prerequisites
            \o (IF TT_nodeMap[nodeId].isProject
                THEN TT_nodeMap[nodeId].relatedCourses ELSE <<>>)

\* the ids the body of collectDownstreamChain recurses into: the courses that
\* list nodeId as a prerequisite, then the projects that list it as related
downstreamCalls(nodeId) ==
  LET isCourseOf(c) == nodeId \in Range(c.prerequisites)
      isProjectOf(p) == nodeId \in Range(p.relatedCourses)
      cs == SelectSeq(courses, isCourseOf)
      ps == SelectSeq(projectNodes, isProjectOf)
  IN [k \in 1..Len(cs) |-> cs[k].id] \o [k \in 1..Len(ps) |-> ps[k].id]

callsOf(variant, dir, nodeId) ==
  IF dir = "up" THEN upstreamCalls(variant, nodeId) ELSE downstreamCalls(nodeId)

\* entering the function on nodeId: return at once when it was visited,
\* otherwise mark it and open a frame with the calls its body will make
enterCall(t, nodeId) ==
  IF visitedHas(t.visited, nodeId) THEN t
  ELSE [t EXCEPT !.visited = @ \cup {nodeId},
                 !.expanded = Append(@, nodeId),
                 !.stack = Append(@, [id |-> nodeId,
                                      todo |-> callsOf(t.variant, t.dir, nodeId)])]

\* one step of the running traversal: the top frame makes its next call, or
\* returns when its loops are done
stepCall(t) ==
  LET top == t.stack[Len(t.stack)]
      below == SubSeq(t.stack, 1, Len(t.stack) - 1)
  IN IF top.todo = <<>> THEN [t EXCEPT !.stack = below]
     ELSE enterCall([t EXCEPT !.stack = Append(below, [top EXCEPT !.todo = Tail(@)])],
                    Head(top.todo))

Running == trav.stack # <<>>

\* const chain = new Set(); collect...Chain(n, chain)
TravStart(variant, dir, n) ==
  /\ ~Running
  /\ IF variant = "GI" THEN phase = "built" ELSE phase = "techtree"
  /\ trav' = enterCall([variant |-> variant, dir |-> dir, start |-> n,
                        stack |-> <<>>, visited |-> {}, expanded |-> <<>>], n)
  /\ UNCHANGED <<inputVars, builtVars, state, lastCall, held, viewVars, tt, lay, card, fetcher, anim>>

TravStep ==
  /\ Running
  /\ trav' = stepCall(trav)
  /\ UNCHANGED <<inputVars, builtVars, state, lastCall, held, viewVars, tt, lay, card, fetcher, anim>>

\* graphs for the traversals: self-references, two-cycles, ids with no node
InitTraversal ==
  /\ NotBuilt
  /\ ManagerInit
  /\ \E pre1 \in {<<>>, <<"c1">>, <<"c2">>}, pre2 \in {<<"c1">>, <<"c2", "zz">>},
        rel \in {<<"c1">>, <<"c2", "p1">>} :
       /\ courses = <<Course("c1", "physics", "A", Null, pre1),
                      Course("c2", "ml", Null, Null, pre2)>>
       /\ projectNodes = <<Project("p1", Null, Null, rel)>>
  /\ leetcodeStatsRaw = SomeStats
  /\ skillsRegistry = SomeSkills
  /\ env = SomeEnv

TravStarts == {"c1", "c2", "p1", "zz"}

NextTraversal ==
  \/ BuildData
  \/ InitTechTree
  \/ \E variant \in {"GI", "TT"}, dir \in {"up", "down"}, n \in TravStarts :
       TravStart(variant, dir, n)
  \/ TravStep

\* the recursion is synchronous code: once entered it keeps running
SpecTraversal == InitTraversal /\ [][NextTraversal]_vars /\ WF_vars(TravStep)

\* ----------------------------------------------------------- layout harness
\* The layout loops of initGalaxyView applied to node lists of every shape:
\* any cluster, any layer tag, one that names no layer group included.

LayerTags == {"inner", "mid", "stargate", "core", "rim"}

LayoutClusters == {"physics", "cs"}

laidOutNode(id, clusterId, layer) ==
  [courseGalaxyNode(Course(id, Null, "A", Null, <<>>))
     EXCEPT !.clusterId = clusterId, !.layer = layer]

ApplyLayout ==
  /\ lay.nodes # <<>>
  /\ lay.pos = <<>>
  /\ lay' = [lay EXCEPT !.pos = layoutOf(lay.nodes, env),
                        !.centers = clusterCenters(lay.nodes, env)]
  /\ UNCHANGED <<inputVars, builtVars, state, lastCall, held, trav, viewVars, tt, card, fetcher, anim>>

InitLayout ==
  /\ courses = <<Course("c1", "physics", "A", Null, <<>>)>>
  /\ projectNodes = <<Project("p1", Null, Null, <<"c1">>)>>
  /\ leetcodeStatsRaw = SomeStats
  /\ skillsRegistry = SomeSkills
  /\ \E size \in {<<1280, 800>>, <<800, 600>>}, random \in {0, 5, 9} :
       env = Env(size[1], size[2], random)
  /\ NotBuilt
  /\ state = EmptyState /\ lastCall = NoCall /\ held = NothingHeld
  /\ trav = NoTraversal /\ card = NewCard /\ fetcher = NotStarted
  /\ anim = NoParticles
  /\ \E c1 \in LayoutClusters, c2 \in LayoutClusters, l1 \in LayerTags, l2 \in LayerTags :
       lay = [nodes |-> <<coreGalaxyNode, laidOutNode("n1", c1, l1),
                          laidOutNode("n2", c2, l2)>>,
              pos |-> <<>>, centers |-> <<>>]

NextLayout ==
  \/ ApplyLayout
  \/ BuildData

SpecLayout == InitLayout /\ [][NextLayout]_vars

\* ------------------------------------------------------- background clients
\* The functions createGalaxyBackground returns, called in any order by a
\* client, before and after the rendering module has loaded.

BrightnessPool ==
  { [i \in 1..NumFog |-> FullBrightness],
    [i \in 1..NumFog |-> IF i = 1 THEN 60 ELSE 8],
    <<30, 30>> }

BgSetBaseBrightness(values) ==
  /\ phase = "built"
  /\ ViewEvent("set-base-brightness", [view EXCEPT !.bg = setBaseBrightness(@, values)])

BgSetFogOfWar(activeClusterId) ==
  /\ phase = "built"
  /\ ViewEvent("set-fog-of-war", [view EXCEPT !.bg = setFogOfWar(@, activeClusterId)])

BgSetWarpIntensity(value) ==
  /\ phase = "built"
  /\ ViewEvent("set-warp-intensity", [view EXCEPT !.bg = setWarpIntensity(@, value)])

InitBackground ==
  /\ courses = <<Course("c1", "physics", "A", Null, <<>>)>>
  /\ projectNodes = <<Project("p1", Null, Null, <<"c1">>)>>
  /\ leetcodeStatsRaw = SomeStats
  /\ skillsRegistry = SomeSkills
  /\ env = SomeEnv
  /\ NotBuilt
  /\ ManagerInit

NextBackground ==
  \/ BuildData
  \/ ThreeLoaded
  \/ \E values \in BrightnessPool : BgSetBaseBrightness(values)
  \/ \E c \in {Null, "physics", "aiml"} : BgSetFogOfWar(c)
  \/ \E value \in {0, 50, 150} : BgSetWarpIntensity(value)

SpecBackground == InitBackground /\ [][NextBackground]_vars

\* ---------------------------------------------------------- builder inputs
\* The graph builder on records of every shape: tracks of no cluster, the
\* course of the override table, grades in and outside the table, project
\* records of any kind, statistics that are absent, empty, partial or larger
\* than a topic's expected total, skill scores up to and above 100.

GradePool == {Null, "", "A+", "B", "Z"}

StatsPool ==
  { Null, <<>>,
    <<[tagSlug |-> "array", problemsSolved |-> 120]>>,
    <<[tagSlug |-> "array", problemsSolved |-> 400],
      [tagSlug |-> "string", problemsSolved |-> 30]>> }

SkillsPool ==
  { Null, SomeSkills,
    <<[id |-> "s1", maturity_score |-> 0, maturity_level |-> "empty"]>>,
    <<[id |-> "s1", maturity_score |-> 100, maturity_level |-> "mature"]>>,
    <<[id |-> "s1", maturity_score |-> 120, maturity_level |-> "mature"]>> }

InitBuilder ==
  /\ \E id1 \in {"c1", "EN553636"}, track1 \in {"physics", "quantum"},
        g1 \in GradePool, g2 \in {Null, "A", "Z"} :
       courses = <<Course(id1, track1, g1, Null, <<>>),
                   Course("c2", "ml", g2, Null, <<id1>>)>>
  /\ \E track \in {Null, "physics", "quantum"}, nt \in {Null, "thesis"} :
       projectNodes = <<Project("p1", track, nt, <<"c2">>)>>
  /\ leetcodeStatsRaw \in StatsPool
  /\ skillsRegistry \in SkillsPool
  /\ env = SomeEnv
  /\ NotBuilt
  /\ ManagerInit

NextBuilder == BuildData

SpecBuilder == InitBuilder /\ [][NextBuilder]_vars

\* ------------------------------------------------------- cards/_shared.ts
\* observeVisibility and animationLoop, as a card such as initMinimalistMath
\* uses them: onVisible starts an animation loop and returns a cleanup that
\* stops it. A loop is [animId, firstId, lastTime, stopped, lateCalls]; the
\* browser's map of animation frame callbacks is card.pending.

MaxFrames == 9

MaxInstances == 3

\* milliseconds between two frames, and 1000 / fps for fps = 30
FrameStep == 20

FrameInterval == 33

\* as cancelledHandle, the handle of the first request, the one animationLoop
\* made itself
cancelledHandle_first(loop) == loop.firstId

\* the handle () => cancelAnimationFrame(animId) cancels: animId is read when
\* the cancel function runs
cancelledHandle(loop) == loop.animId

\* as shouldStart, without the test of cleanup
shouldStart_always(isIntersecting, cleanup) == isIntersecting

\* if (entry.isIntersecting && !cleanup)
shouldStart(isIntersecting, cleanup) == isIntersecting /\ cleanup = 0

\* requestAnimationFrame(tick) by loop i: a new handle in the browser's map
requestFrame(c, i) ==
  [c EXCEPT !.handles = @ + 1,
            !.pending = @ \cup {[handle |-> c.handles + 1, loop |-> i]},
            !.loops[i].animId = c.handles + 1]

\* the cancel function returned by animationLoop, for loop i
cancelLoop(c, i) ==
  [c EXCEPT !.pending = {p \in @ : p.handle # cancelledHandle(c.loops[i])},
            !.loops[i].stopped = TRUE]

\* animationLoop(callback, 30): the first request
animationLoop(c) ==
  LET i == Len(c.loops) + 1
      c1 == [c EXCEPT !.loops = Append(@, [animId |-> 0, firstId |-> c.handles + 1,
                                           lastTime |-> 0, stopped |-> FALSE,
                                           lateCalls |-> 0])]
  IN requestFrame(c1, i)

\* tick(time) of loop i: request the next frame, return when the interval has
\* not passed, else call the callback; cancelInside: the callback calls the
\* cancel function
tick(c, i, time, cancelInside) ==
  LET c1 == requestFrame(c, i)
  IN IF time - c1.loops[i].lastTime < FrameInterval THEN c1
     ELSE LET c2 == [c1 EXCEPT !.loops[i].lastTime = time,
                               !.loops[i].lateCalls =
                                  IF c1.loops[i].stopped THEN @ + 1 ELSE @]
          IN IF cancelInside THEN cancelLoop(c2, i) ELSE c2

\* onVisible() of the card: setupCanvas, animationLoop; its cleanup is that of
\* the new instance
onVisible(c) ==
  LET c1 == animationLoop(c)
      i == Len(c1.loops)
  IN [c1 EXCEPT !.cleanup = i, !.live = @ \cup {i},
                !.overlapped = @ \/ c.live # {}]

\* cleanup(); cleanup = null: stop() and canvas.remove() of instance i
runCleanup(c, i) ==
  [cancelLoop(c, i) EXCEPT !.cleanup = 0, !.live = @ \ {i},
                           !.cleanupLog = Append(@, i)]

RECURSIVE observerCallback(_, _)
\* the IntersectionObserver callback: for (const entry of entries) ...
observerCallback(c, entries) ==
  IF entries = <<>> THEN c
  ELSE LET c1 == IF shouldStart(Head(entries), c.cleanup) THEN onVisible(c)
                 ELSE IF ~Head(entries) /\ c.cleanup # 0
                      THEN runCleanup(c, c.cleanup)
                      ELSE c
       IN observerCallback(c1, Tail(entries))

\* the browser delivers intersection entries of the observed element
Intersect(entries) ==
  /\ Len(card.loops) + Cardinality({k \in 1..Len(entries) : entries[k]}) <= MaxInstances
  /\ card' = observerCallback(card, entries)
  /\ UNCHANGED <<inputVars, builtVars, state, lastCall, held, trav, lay, fetcher, anim, viewVars, tt>>

\* the browser runs a requested frame callback
Frame(p, cancelInside) ==
  /\ p \in card.pending
  /\ card.handles < MaxFrames
  /\ card' = tick([card EXCEPT !.pending = @ \ {p}, !.now = @ + FrameStep],
                  p.loop, card.now + FrameStep, cancelInside)
  /\ UNCHANGED <<inputVars, builtVars, state, lastCall, held, trav, lay, fetcher, anim, viewVars, tt>>

\* whoever holds the cancel function of loop i calls it, between two frames
CancelLoop(i) ==
  /\ i \in 1..Len(card.loops)
  /\ card' = cancelLoop(card, i)
  /\ UNCHANGED <<inputVars, builtVars, state, lastCall, held, trav, lay, fetcher, anim, viewVars, tt>>

IntersectionEntries == {<<TRUE>>, <<FALSE>>, <<TRUE, FALSE>>, <<FALSE, TRUE>>, <<TRUE, TRUE>>}

InitCards ==
  /\ courses = <<Course("c1", "physics", "A", Null, <<>>)>>
  /\ projectNodes = <<Project("p1", Null, Null, <<"c1">>)>>
  /\ leetcodeStatsRaw = SomeStats
  /\ skillsRegistry = SomeSkills
  /\ env = SomeEnv
  /\ NotBuilt
  /\ ManagerInit

NextCards ==
  \/ \E entries \in IntersectionEntries : Intersect(entries)
  \/ \E p \in card.pending, cancelInside \in BOOLEAN : Frame(p, cancelInside)
  \/ \E i \in 1..MaxInstances : CancelLoop(i)

SpecCards == InitCards /\ [][NextCards]_vars

\* ---------------------------------------- scripts/fetch-leetcode.ts: main
\* main() as three steps, one per await: the start, the official API settling,
\* the fallback API settling. A response is a record; ok = FALSE is a request
\* that throws (network error, status not ok, a body that is not JSON).

\* main() up to await fetchOfficialStats(username)
Main ==
  /\ fetcher.pc = "idle"
  /\ fetcher' = [fetcher EXCEPT !.pc = "official",
                                !.username = getUsername(fetcher.args),
                                !.log = Append(@, "query-official")]
  /\ UNCHANGED <<inputVars, builtVars, state, lastCall, held, trav, lay, card, anim, viewVars, tt>>

\* the first try block and its catch, up to await fetchFallbackStats(username)
OfficialSettles(response) ==
  /\ fetcher.pc = "official"
  /\ LET stats == fetchOfficialStats(fetcher.username, response)
     IN fetcher' =
          IF ~response.ok
          THEN [fetcher EXCEPT !.pc = "fallback", !.official = "threw",
                               !.log = Append(@, "query-fallback")]
          ELSE IF hasStats(stats)
          THEN [writeStats(fetcher, stats, "write-official") EXCEPT
                  !.pc = "done", !.official = "stats", !.officialStats = stats]
          ELSE [fetcher EXCEPT !.pc = "fallback", !.official = "stats",
                               !.officialStats = stats,
                               !.log = Append(@, "query-fallback")]
  /\ UNCHANGED <<inputVars, builtVars, state, lastCall, held, trav, lay, card, anim, viewVars, tt>>

\* the second try block and its catch
FallbackSettles(response) ==
  /\ fetcher.pc = "fallback"
  /\ LET stats == fetchFallbackStats(fetcher.username, response)
     IN fetcher' =
          IF ~response.solvedOk
          THEN [writeStats(fetcher, emptyStats(fetcher.username), "write-empty")
                  EXCEPT !.pc = "done", !.fallback = "threw"]
          ELSE [writeStats(fetcher, stats, "write-fallback") EXCEPT
                  !.pc = "done", !.fallback = "stats", !.fallbackStats = stats]
  /\ UNCHANGED <<inputVars, builtVars, state, lastCall, held, trav, lay, card, anim, viewVars, tt>>

NoCounts == [fundamental |-> <<>>, intermediate |-> <<>>, advanced |-> <<>>]

CountsPool ==
  { NoCounts,
    [NoCounts EXCEPT !.fundamental = <<Tag("array", 3)>>],
    [NoCounts EXCEPT !.fundamental = <<Tag("array", 3)>>,
                     !.advanced = <<Tag("array", 5)>>],
    [NoCounts EXCEPT !.fundamental = <<Tag("array", 5)>>,
                     !.intermediate = <<Tag("array", 3), Tag("string", 1)>>] }

AcPool ==
  { <<>>,
    <<[difficulty |-> "All", count |-> 0]>>,
    <<[difficulty |-> "All", count |-> 5], [difficulty |-> "Easy", count |-> 3]>> }

OfficialResponses ==
  {[ok |-> FALSE, acStats |-> <<>>, counts |-> NoCounts]}
  \cup [ok : {TRUE}, acStats : AcPool, counts : CountsPool]

FallbackResponses ==
  {[solvedOk |-> FALSE, solvedProblem |-> 0, skillOk |-> FALSE, counts |-> NoCounts]}
  \cup [solvedOk : {TRUE}, solvedProblem : {0, 5}, skillOk : BOOLEAN,
        counts : CountsPool]

ArgsPool == {<<>>, <<"--username", "alice">>, <<"--username">>, <<"alice">>}

CommittedPool ==
  {emptyStats("Vikalaka"), Stats("Vikalaka", 9, <<Tag("array", 4)>>)}

InitFetcher ==
  /\ courses = <<Course("c1", "physics", "A", Null, <<>>)>>
  /\ projectNodes = <<Project("p1", Null, Null, <<"c1">>)>>
  /\ leetcodeStatsRaw = SomeStats
  /\ skillsRegistry = SomeSkills
  /\ env = SomeEnv
  /\ NotBuilt
  /\ state = EmptyState /\ lastCall = NoCall /\ held = NothingHeld
  /\ trav = NoTraversal /\ lay = NoLayout /\ card = NewCard /\ anim = NoParticles
  /\ \E args \in ArgsPool, committed \in CommittedPool :
       fetcher = BeforeMain(args, committed)

NextFetcher ==
  \/ Main
  \/ \E response \in OfficialResponses : OfficialSettles(response)
  \/ \E response \in FallbackResponses : FallbackSettles(response)

SpecFetcher == InitFetcher /\ [][NextFetcher]_vars

\* ------------------------------------------ galaxy view: energy particles
\* The circles of energyGroup and the looping transitions on them. A circle
\* is a particle with the number of the highlightChain call that appended it;
\* anim.loops holds the circles whose transition chain (.on('end', loop))
\* is running, in the document or not.

MaxHighlights == 3

Circle(dot, call) == [dot |-> dot, call |-> call]

\* spawnEnergyParticles with the transitions: selectAll('.energy-dot')
\* .remove() takes the circles out of the document and leaves their
\* transitions scheduled; every new circle starts its loop
spawnEnergyCircles(a, activeEdges) ==
  LET new == {Circle(dot, a.calls) : dot \in spawnEnergyParticles({}, activeEdges)}
  IN [a EXCEPT !.dots = new, !.loops = @ \cup new]

\* spawnOverclockParticles with the transitions
spawnOverclockCircles(a, sourceId, targetIds) ==
  LET new == {Circle(dot, a.calls) :
                dot \in spawnOverclockParticles({}, sourceId, targetIds)}
  IN [a EXCEPT !.dots = @ \cup new, !.loops = @ \cup new]

\* clearEnergyParticles with the transitions: interrupt() stops those of the
\* selected circles, the ones in the document
clearEnergyCircles(a) == [a EXCEPT !.loops = @ \ a.dots, !.dots = {}]

\* the particle calls of highlightChain(d)
highlightCircles(a, d) ==
  LET chain == GV_collectDownstreamChain(d, GV_collectPrereqChain(d, {}))
      overclocked == GV_collectUpstreamSkills(d)
      es == validEdges
      activeEdges == {i \in 1..Len(es) : es[i].source \in chain /\ es[i].target \in chain}
      a1 == spawnEnergyCircles([a EXCEPT !.calls = @ + 1], activeEdges)
  IN IF overclocked # {} THEN spawnOverclockCircles(a1, d, overclocked) ELSE a1

\* mouseenter on a star or a star gate
ParticlesMouseEnter(d) ==
  /\ phase = "built"
  /\ anim.pointer = Null
  /\ d \in DOMAIN view.starClasses
  /\ anim.calls < MaxHighlights
  /\ anim' = [highlightCircles(anim, d) EXCEPT !.pointer = d]
  /\ UNCHANGED <<inputVars, builtVars, state, lastCall, held, trav, lay, card, fetcher, viewVars, tt>>

\* mouseleave: clearHighlight()
ParticlesMouseLeave ==
  /\ phase = "built"
  /\ anim.pointer # Null
  /\ anim' = [clearEnergyCircles(anim) EXCEPT !.pointer = Null]
  /\ UNCHANGED <<inputVars, builtVars, state, lastCall, held, trav, lay, card, fetcher, viewVars, tt>>

\* click on the star under the pointer: showDetailPanel(d) ends with
\* highlightChain(d); a star gate's click runs closePanel() first
ParticlesClick ==
  /\ phase = "built"
  /\ anim.pointer # Null
  /\ anim.calls < MaxHighlights
  /\ anim' = IF nodeMap[anim.pointer].isStarGate
             THEN highlightCircles(clearEnergyCircles(anim), anim.pointer)
             ELSE highlightCircles(anim, anim.pointer)
  /\ UNCHANGED <<inputVars, builtVars, state, lastCall, held, trav, lay, card, fetcher, viewVars, tt>>

\* a close button or a click on the background: clearHighlight()
ParticlesClose ==
  /\ phase = "built"
  /\ anim' = clearEnergyCircles(anim)
  /\ UNCHANGED <<inputVars, builtVars, state, lastCall, held, trav, lay, card, fetcher, viewVars, tt>>

InitParticles == InitView

NextParticles ==
  \/ BuildData
  \/ \E d \in PointerTargets : ParticlesMouseEnter(d)
  \/ ParticlesMouseLeave
  \/ ParticlesClick
  \/ ParticlesClose

SpecParticles == InitParticles /\ [][NextParticles]_vars

\* ================================================================ claims

NodeIds == {galaxyNodes[i].id : i \in 1..Len(galaxyNodes)}

Dangling(e, ids) == e.source \notin ids \/ e.target \notin ids

\* C1: collectChain(n) returns the union of the upstream-reachable set of n and
\* the downstream-reachable set of n, and the chain contains n; so every
\* downstream dependent of n is in the chain.
C1_ChainIsUnion ==
  lastCall.op = "collectChain" =>
    /\ lastCall.arg \in lastCall.ret.chain
    /\ lastCall.ret.chain = collectPrereqChain(lastCall.arg, {})
                            \cup collectDownstreamChain(lastCall.arg, {})

\* C2: chain symmetry. For node ids A and B of the node map (courses,
\* project-like nodes, algorithm topics): if B is in the upstream set collected
\* from A, then A is in the downstream set collected from B.
C2_ChainSymmetry ==
  (lastCall.op = "collectPrereqChain" /\ lastCall.arg \in DOMAIN nodeMap) =>
    \A B \in lastCall.ret \cap DOMAIN nodeMap :
      lastCall.arg \in collectDownstreamChain(B, {})

\* C3 as claimed: every edge buildEdges returns (the merged algorithm-topic
\* edges included) has its source and its target among the ids of the nodes
\* buildGalaxyNodes returns for the same inputs.
C3_BuildEdgesValid ==
  LET ids == NodeIds IN phase = "built" => \A i \in 1..Len(edges) : ~Dangling(edges[i], ids)

\* C3 as amended: buildEdges keeps edges whose endpoint has no node; the view's
\* filter (validEdges) drops exactly those, silently, and every edge it keeps
\* has both ends among the ids of the built nodes and is an edge of buildEdges.
C3_ValidEdgesFiltered ==
  LET ids == NodeIds
      kept == validEdges
  IN phase = "built" =>
       /\ \A i \in 1..Len(kept) : ~Dangling(kept[i], ids)
       /\ Range(kept) = {e \in Range(edges) : ~Dangling(e, ids)}

\* C3 witness: buildEdges produced an edge with an end of no node, the filter
\* dropped it and kept others.
C3_Witness ==
  LET ids == NodeIds
  IN /\ phase = "built"
     /\ \E i \in 1..Len(edges) : Dangling(edges[i], ids)
     /\ Len(validEdges) > Len(algoEdges)
     /\ Len(validEdges) < Len(edges)

IsProjectLikeOrPortal(n) ==
  nodeMap[n].nodeType \in ProjectLikeTypes \/ nodeMap[n].isStarGate

PrereqIdsOf(id) == IF id \in DOMAIN nodeMap THEN Range(nodeMap[id].prerequisites) ELSE {}

RelatedPlusOneHop(n) ==
  Range(nodeMap[n].relatedCourses)
  \cup UNION {PrereqIdsOf(cid) : cid \in Range(nodeMap[n].relatedCourses)}

C6_NoIdsNoHighlight ==
  (state.hoveredNodeId = Null /\ state.selectedNodeId = Null) =>
    /\ state.highlightedChain = {}
    /\ state.overclockTargets = {}
    /\ state.fogClusterId = Null

\* C6 witness: select(null) has just cleared a selection whose chain, overclock
\* targets and fog the caller had read from an earlier return value.
C6_Witness ==
  /\ lastCall.op = "select"
  /\ lastCall.arg = Null
  /\ state.hoveredNodeId = Null
  /\ state.selectedNodeId = Null
  /\ held.ref # Null
  /\ held.seen.selectedNodeId # Null
  /\ held.seen.highlightedChain # {}
  /\ held.seen.overclockTargets # {}
  /\ held.seen.fogClusterId # Null

\* C7: reset() called twice in a row yields the same empty state both times:
\* both ids null, chain and overclock targets empty, fog null.
C7_ResetIdempotent ==
  [][(lastCall'.op = "reset" /\ lastCall'.again) =>
       (state = EmptyState /\ state' = state)]_vars

\* C7 witness: a second reset in a row, after a state that held a highlight.
C7_Witness ==
  /\ lastCall.op = "reset"
  /\ lastCall.again
  /\ state = EmptyState
  /\ held.ref # Null
  /\ held.seen.highlightedChain # {}

\* C8: the value a hover, select or reset call returned is a snapshot: what the
\* caller reads in it later is what it read when the call returned.
C8_ReturnIsSnapshot ==
  held.ref # Null => Deref(held.ref) = held.seen

\* the handlers that close a panel explicitly: the two close buttons, a click
\* on the background, the zoom reset
ExplicitCloses == {"detail-close", "sg-close", "background-click", "zoom-reset"}

ViewIdle == ~view.detailVisible /\ ~view.sgVisible /\ view.pointer = Null

\* every fog uniform that exists holds the base brightness of each cluster
FogNeutral(b) ==
  /\ b.uFogMask # NoUniform => b.uFogMask = b.baseBrightness
  /\ b.uFogMaskStars # NoUniform => b.uFogMaskStars = b.baseBrightness

\* C4: whenever the view is idle again after an explicit close (no panel open,
\* no node hovered), the fog-of-war mask is neutral: every cluster is at its
\* base brightness, whatever clicks and navigations came before.
C4_FogNeutralAfterClose ==
  (phase = "built" /\ lastEvent \in ExplicitCloses /\ ViewIdle) =>
    FogNeutral(view.bg)

\* no star or edge of the galaxy view carries highlighted, dimmed or
\* overclocked, and the energy group holds no particle
NoEmphasis(v) ==
  /\ \A n \in DOMAIN v.starClasses : v.starClasses[n] = {}
  /\ \A i \in DOMAIN v.edgeClasses : v.edgeClasses[i] = {}
  /\ v.energyDots = {}

TT_NoEmphasis(t) ==
  /\ \A n \in DOMAIN t.nodeClasses : t.nodeClasses[n] = {}
  /\ \A i \in DOMAIN t.edgeClasses : t.edgeClasses[i] = {}

NoDuplicates(s) == \A i, j \in 1..Len(s) : s[i] = s[j] => i = j

\* the result the recursive definition gives for the traversal that ran
chainOfTraversal ==
  IF trav.variant = "GI"
  THEN IF trav.dir = "up" THEN collectPrereqChain(trav.start, {})
       ELSE collectDownstreamChain(trav.start, {})
  ELSE IF trav.dir = "up" THEN TT_collectPrereqChain(trav.start, {})
       ELSE TT_collectDownstreamChain(trav.start, {})

\* C11: on every graph, cycles and self-references included, an upstream or
\* downstream traversal expands each node id at most once, it returns, and
\* what it returns is the chain of the recursive definition.
C11_TraversalTerminates ==
  /\ [](NoDuplicates(trav.expanded))
  /\ [](trav.variant # Null /\ ~Running => trav.visited = chainOfTraversal)
  /\ (Running ~> ~Running)

\* a finished upstream traversal that went round a cycle of two courses
C11_Witness ==
  /\ ~Running /\ trav.dir = "up" /\ trav.start = "c1"
  /\ "c2" \in Range(courses[1].prerequisites)
  /\ "c1" \in Range(courses[2].prerequisites)
  /\ Len(trav.expanded) = 2

\* ------------------------------------------------------------------- C12
\* the ids one step upstream of id when related courses are followed only
\* from project-like nodes
GatedStep(id) ==
  IF id \notin DOMAIN nodeMap THEN {}
  ELSE Range(nodeMap[id].prerequisites)
       \cup (IF nodeMap[id].nodeType \in ProjectLikeTypes
             THEN Range(nodeMap[id].relatedCourses) ELSE {})

RECURSIVE GatedReach(_)
GatedReach(S) ==
  LET S2 == S \cup UNION {GatedStep(id) : id \in S}
  IN IF S2 = S THEN S ELSE GatedReach(S2)

\* C12 as claimed: the upstream set of n is exactly what is reachable from n
\* through prerequisite ids and, from project-like nodes only, related-course
\* ids; the related courses of a node that is not project-like are not
\* followed.
C12_UpstreamGated ==
  phase = "built" =>
    \A n \in CallArgs :
      /\ collectPrereqChain(n, {}) = GatedReach({n})
      /\ GV_collectPrereqChain(n, {}) = GatedReach({n})

\* ------------------------------------------------------------------- C13
\* the entries of a layout that are not the root's
NonRoot(pos) == {i \in 1..Len(pos) : pos[i].id # "CORE"}

\* C13: the layout assigns the position of every node but the root exactly
\* once, and no handler that runs afterwards (hover, click, zoom, cluster
\* navigation, resize) assigns any position again.
C13_PositionWrittenOnce ==
  /\ [](phase = "built" => \A i \in NonRoot(view.pos) : view.pos[i].writes = 1)
  /\ [][phase = "built" => view'.pos = view.pos]_vars

\* after a resize, a zoom or a cluster navigation every node is where the
\* layout put it
C13_Witness ==
  /\ phase = "built"
  /\ lastEvent \in {"resize", "cluster-nav", "zoom-button"}
  /\ \E i \in NonRoot(view.pos) : view.pos[i].band = "stargate"
  /\ \A i \in NonRoot(view.pos) : view.pos[i].x # 0 \/ view.pos[i].y # 0

\* ------------------------------------------------------------------- C14
NodeLayers == {"core", "inner", "mid", "outer", "stargate"}

C15_RootAtOrigin ==
  phase = "built" =>
    \A i \in 1..Len(view.pos) :
      view.pos[i].id = "CORE" =>
        /\ view.pos[i].x = 0 /\ view.pos[i].y = 0
        /\ view.pos[i].band = Null /\ view.pos[i].cluster = Null

\* the root at the origin after a cluster navigation, the other nodes
\* somewhere else
C15_Witness ==
  /\ phase = "built" /\ lastEvent = "cluster-nav"
  /\ \E i \in 1..Len(view.pos) : view.pos[i].id = "CORE" /\ view.pos[i].writes = 1
  /\ \E i \in NonRoot(view.pos) : view.pos[i].cluster = view.activeNavBtn

\* ------------------------------------------------------------------- C20
\* (cos(angle) * radius * scale, sin(angle) * radius * scale) of a cluster
Anchor(id) ==
  [x |-> cosOf(clusterAngle(id)) * clusterRadius * scaleOf(env),
   y |-> sinOf(clusterAngle(id)) * clusterRadius * scaleOf(env)]

NodesIn(pos, id) == {i \in NonRoot(pos) : pos[i].cluster = id}

\* C20: the center the layout keeps for a cluster, and around which it places
\* the cluster's nodes, is (cos(angle) * radius * scale, sin(angle) * radius *
\* scale) whatever the number of nodes in the cluster, none included.
C20_AnchorFixed ==
  lay.pos # <<>> =>
    /\ \A id \in ClusterIds : lay.centers[id] = Anchor(id)
    /\ \A i \in NonRoot(lay.pos) :
         lay.pos[i].band # Null =>
           \E k \in 0..3 :
             simulated(Anchor(lay.pos[i].cluster),
                       radialTarget(lay.pos[i].band, env), k)
               = [x |-> lay.pos[i].x, y |-> lay.pos[i].y]

\* a layout with two nodes in one cluster, none in the others, on the small
\* container
C20_Witness ==
  /\ lay.pos # <<>>
  /\ Cardinality(NodesIn(lay.pos, "cs")) = 2
  /\ NodesIn(lay.pos, "physics") = {}
  /\ scaleOf(env) = 75

\* ------------------------------------------------------------------- C16
\* C16: every node of the built graph but the root has a clusterId that is
\* the id of exactly one defined cluster, whatever the tracks of the course
\* and project records and whether or not the override table has the course;
\* the root alone has the cluster 'core', which is no defined cluster.
C16_OneDefinedCluster ==
  phase = "built" =>
    /\ "core" \notin ClusterIds
    /\ \A id \in DOMAIN nodeMap :
         IF id = "CORE" THEN nodeMap[id].clusterId = "core"
         ELSE Cardinality({i \in 1..Len(clusters) :
                             clusters[i].id = nodeMap[id].clusterId}) = 1

\* the override course and a project, both on a track of no cluster
C16_Witness ==
  /\ phase = "built"
  /\ courses[1].track = "quantum" /\ projectNodes[1].track = "quantum"
  /\ courses[1].id = "EN553636"
  /\ nodeMap["EN553636"].clusterId = "data"
  /\ nodeMap["p1"].clusterId = "aiml"

\* ------------------------------------------------------------------- C17
\* the statistics have no entry for any tag of the topic
NoStatsFor(topic) ==
  \A k \in 1..Len(topic.tagSlugs) :
    \/ leetcodeStatsRaw = Null
    \/ \A i \in 1..Len(leetcodeStatsRaw) :
         leetcodeStatsRaw[i].tagSlug # topic.tagSlugs[k]

\* C17: a topic whose tags have no statistics (no tagStats at all, an empty
\* list, or a list without those slugs) still gets its node, with mastery 0
\* and marked unexplored: star class ghost, dark.
C17_NoStatsUnexplored ==
  phase = "built" =>
    \A t \in 1..Len(ALGO_TOPICS) :
      NoStatsFor(ALGO_TOPICS[t]) =>
        /\ ALGO_TOPICS[t].id \in DOMAIN nodeMap
        /\ nodeMap[ALGO_TOPICS[t].id].mastery.num = 0
        /\ nodeMap[ALGO_TOPICS[t].id].starClass = "ghost"
        /\ nodeMap[ALGO_TOPICS[t].id].isDark
        /\ nodeMap[ALGO_TOPICS[t].id].nodeType = "dark"

\* statistics that have the tags of one topic and lack those of the other
C17_Witness ==
  /\ phase = "built"
  /\ leetcodeStatsRaw # Null /\ leetcodeStatsRaw # <<>>
  /\ NoStatsFor(ALGO_TOPICS[2]) /\ ~NoStatsFor(ALGO_TOPICS[1])
  /\ nodeMap["algo-string"].isDark /\ ~nodeMap["algo-array-hash"].isDark

\* ------------------------------------------------------------------- C18
GradeTable == {"A+", "A", "A-", "B+", "B", "P"}

CoursesOffTable == {i \in 1..Len(courses) : courses[i].grade \notin GradeTable}

\* C18 as claimed: a missing grade and every grade outside the table give one
\* and the same default mastery.
C18_OneDefault ==
  phase = "built" =>
    \A i, j \in CoursesOffTable :
      nodeMap[courses[i].id].mastery = nodeMap[courses[j].id].mastery

\* C18, amended: gradeToMastery gives 0.5 for a missing or empty grade and
\* 0.4 for every other grade outside the table; it raises no error.
C18_TwoDefaults ==
  phase = "built" =>
    \A i \in CoursesOffTable :
      nodeMap[courses[i].id].mastery =
        IF courses[i].grade \in {Null, ""} THEN Frac(50, 100) ELSE Frac(40, 100)

\* one course without a grade, one with a grade the table does not have
C18_Witness ==
  /\ phase = "built"
  /\ courses[1].grade = "Z" /\ courses[2].grade = Null
  /\ nodeMap[courses[1].id].mastery = Frac(40, 100)
  /\ nodeMap[courses[2].id].mastery = Frac(50, 100)

\* ------------------------------------------------------------------- C19
\* C19 as claimed: every node of the built graph has a mastery between 0 and 1.
C19_MasteryInUnitInterval ==
  phase = "built" =>
    \A id \in DOMAIN nodeMap :
      /\ 0 <= nodeMap[id].mastery.num
      /\ nodeMap[id].mastery.num <= nodeMap[id].mastery.den

\* ------------------------------------------------------------------- C21
\* the node whose detail or star-gate panel is open
SelectedNode(v) == IF v.detailVisible THEN v.detailNode ELSE v.sgNode

\* C21 as claimed: while a panel is open, the pointer leaving a node leaves the
\* highlight of the selected node in effect: the stars and edges carry the
\* classes that highlighting the selected node gives them.
C21_SelectionSurvivesLeave ==
  (/\ phase = "built"
   /\ view.detailVisible \/ view.sgVisible
   /\ lastEvent \in {"star-mouseleave", "stargate-mouseleave"})
    => /\ view.starClasses = highlightChain(view, SelectedNode(view)).starClasses
       /\ view.edgeClasses = highlightChain(view, SelectedNode(view)).edgeClasses

\* ------------------------------------------------------------------- C22
\* C22 as claimed: when the rendering module finishes loading after a fog
\* request for a cluster was made, the fog mask is the one the same request
\* gives when made after loading.
C22_FogRequestSurvivesLoading ==
  [][(/\ phase = "built" /\ phase' = "built"
      /\ ~view.bg.ready /\ view'.bg.ready
      /\ view.bg.lastFog # Null)
       => view'.bg.uFogMask = setFogOfWar(view'.bg, view.bg.lastFog).uFogMask]_vars

\* ------------------------------------------------------------------- C26
\* the mask of a focused cluster: 1.0 for it, 0.12 for the others
FocusedMask(clusterId) ==
  [i \in 1..NumFog |->
     IF clusters[i].id = clusterId THEN FullBrightness ELSE SuppressedBrightness]

\* C26 as claimed: setBaseBrightness called while a cluster is focused through
\* setFogOfWar(id) records the values and leaves the focused mask in effect.
C26_BaseBrightnessKeepsFocus ==
  (/\ phase = "built" /\ view.bg.ready
   /\ lastEvent = "set-base-brightness"
   /\ view.bg.lastFog # Null)
    => view.bg.uFogMask = FocusedMask(view.bg.lastFog)

\* ------------------------------------------------------------------- C23
\* C23 as claimed: whenever the warp target has been raised to 1.0 it is 0
\* again later, whatever events follow.
C23_WarpReturnsToZero ==
  (phase = "built" /\ view.bg.warpTarget = FullWarp)
    ~> (phase = "built" /\ view.bg.warpTarget = 0)

\* ------------------------------------------------------------------- C24
\* C24: once the cancel function of a loop has been called, from outside or
\* from inside its frame callback, the callback is not called again and no
\* frame of the loop remains requested.
C24_CancelIsFinal ==
  \A i \in 1..Len(card.loops) :
    card.loops[i].stopped =>
      /\ card.loops[i].lateCalls = 0
      /\ \A p \in card.pending : p.loop # i

\* a loop that ran its callback, was cancelled after its second request, and
\* has no frame requested
C24_Witness ==
  \E i \in 1..Len(card.loops) :
    /\ card.loops[i].stopped
    /\ card.loops[i].lastTime > 0
    /\ card.loops[i].animId # card.loops[i].firstId
    /\ card.pending = {}

\* ------------------------------------------------------------------- C25
\* C25: onVisible is never called while an instance it started earlier has
\* not been cleaned up, and the cleanup of an instance is called at most once,
\* also when one callback delivers several entries.
C25_VisibleCleanupAlternate ==
  /\ ~card.overlapped
  /\ Cardinality(card.live) <= 1
  /\ NoDuplicates(card.cleanupLog)
  /\ (card.cleanup = 0 <=> card.live = {})

\* two instances started and cleaned up in turn
C25_Witness ==
  /\ Len(card.loops) = 2
  /\ card.cleanupLog = <<1, 2>>
  /\ card.live = {}

\* ------------------------------------------------------------------- C27
\* C27: every id in the chain and in the overclock set that collectChain
\* computes for a node of the node map is the id of a node in the node map,
\* also when a prerequisite or related-course list names an id of no node.
C27_ChainIdsAreNodes ==
  (phase = "built" /\ lastCall.op = "collectChain"
     /\ lastCall.arg \in DOMAIN nodeMap) =>
     /\ lastCall.ret.chain \subseteq DOMAIN nodeMap
     /\ lastCall.ret.overclock \subseteq DOMAIN nodeMap

\* ------------------------------------------------------------------- C28
\* the three classes of the claim, over the elements that carry the classes
Partitioned(classes, d, chain) ==
  \A n \in DOMAIN classes :
    /\ n = d => "highlighted" \notin classes[n] /\ "dimmed" \notin classes[n]
    /\ (n \in chain /\ n # d) =>
          "highlighted" \in classes[n] /\ "dimmed" \notin classes[n]
    /\ n \notin chain =>
          "dimmed" \in classes[n] /\ "highlighted" \notin classes[n]

GalaxyChain(d) == GV_collectDownstreamChain(d, GV_collectPrereqChain(d, {}))

TechTreeChain(d) == TT_collectDownstreamChain(d, TT_collectPrereqChain(d, {}))

\* some star of the view carries a class of the highlight
HighlightShown ==
  \E n \in DOMAIN view.starClasses :
    view.starClasses[n] \cap {"highlighted", "dimmed"} # {}

LogPlace(what) ==
  LET at == {i \in 1..Len(fetcher.log) : fetcher.log[i] = what}
  IN IF at = {} THEN 0 ELSE Least(at)

NoStatsIn(stats) == stats.totalSolved = 0 /\ stats.tagStats = <<>>

C30_NoLoopOnRemovedParticle ==
  /\ anim.loops \subseteq anim.dots
  /\ Cardinality(anim.loops) <= Cardinality(anim.dots)

====
